---- MODULE Spec2Model ----
(***************************************************************************)
(* State-machine model of the entity orchestration core of racing_game:    *)
(* ProjectileManager (managers/ProjectileManager.ts), EnemyManager         *)
(* (managers/EnemyManager.ts) and EnemyCube (entities/EnemyCube.ts), with  *)
(* the physics world reduced to the set of bodies it holds and the event   *)
(* bus reduced to the list of events one operation emits.                  *)
(*                                                                         *)
(* Times passed as `now` are whole seconds; cooldowns and dt are in        *)
(* hundredths of a second (the code never mixes the two).                  *)
(***************************************************************************)
EXTENDS Integers, Sequences, FiniteSets, TLC

(* ------------------------------ bounds -------------------------------- *)
\* largest configured cfg.maxEnemies
MaxEnemiesCfg == 2
\* largest configured cfg.maxBullets
MaxBulletsCfg == 2
\* the configured cfg.spawnIntervalSec
IntervalCfg == 1
\* number of EnemyCube objects ever constructed in one run
MaxEnemyIds == 3
\* number of Projectile objects ever constructed in one run
MaxProjIds == 2
\* last value of the caller's clock
MaxClock == 3
\* largest configured cfg.coinCount
MaxCoinCfg == 2
\* number of Coin objects ever constructed in one run
MaxCoinIds == 4
\* largest number of player bodies passed to CoinManager.update
MaxPlayers == 2
\* number of enemy shots fired at the player in one run
MaxShots == 4
\* the largest facing angle followed, in turn steps of the largest delta
MaxTurn == 3
\* the largest reading of the frame clock
MaxAppTime == 13
\* the largest number of animation frames requested by the page
MaxFrames == 10
\* the number of distinct listener functions registered on an EventBus
MaxListeners == 2
\* the largest number of CarController.update calls followed
MaxCarUpdates == 2

(* ------------------------- program constants -------------------------- *)
\* EnemyCube constructor default health
StartHealth == 40
\* kill score
KillScore == 100
\* enemy bullet damage
EnemyBulletDamage == 10
\* default player bullet damage
PlayerBulletDamage == 25
\* despawn floor
FloorY == -12
\* maximum range from the origin
MaxRange == 400
\* cooldown fallback when the map has no entry (1.7 s)
CooldownDefault == 170
\* cooldown after a shot: 1.7 + random * 1.0
CooldownResetBase == 170
\* cooldown of a new enemy: random * 1.3 + 1.1
CooldownSpawnBase == 110

\* Math.random() in tenths: 0.0 and 0.9
RandSet == {0}
\* frame deltas passed to EnemyManager.update, in hundredths of a second
DtSet == {300}
\* damages passed to checkHit: the player bullet default and the full health
DamageSet == {PlayerBulletDamage, StartHealth}
\* body positions, as height y and distance r from the origin: the last
\* point inside the bounds, one below the floor, one beyond the range
PosSet == {[y |-> FloorY, r |-> MaxRange],
           [y |-> FloorY - 1, r |-> 13], [y |-> 0, r |-> MaxRange + 1]}
\* where an enemy body is when it shoots (enemies spawn near the origin)
EnemyMuzzle == [y |-> 0, r |-> 0]
Owners == {"player", "enemy"}
\* coin pickup threshold 2.2, in tenths of a unit
CoinThreshold == 22
\* score of one coin
CoinScore == 100
\* DEFAULT_STATE.health
HudStartHealth == 100
\* where spawnCoins may put a coin, in tenths of a unit along one line
CoinPosSet == {0, 50}
\* where a player body may be: within the threshold of the coin at 0, at
\* the threshold exactly, and within the threshold of the coin at 50
PlayerPosSet == {CoinThreshold - 1, CoinThreshold, 50 - CoinThreshold + 1}
\* damages of the enemy projectiles that reach the player: the one
\* EnemyManager shoots with, and one larger than the health left after two
HitDamageSet == {EnemyBulletDamage, 90}
\* CubePlayer.size, in hundredths of a unit
CubeSize == 200
\* CubePlayer.JUMP_VELOCITY, in hundredths
JumpVelocity == 1200
\* CubePlayer.GROUND_EPSILON, in hundredths
GroundEpsilon == 18
\* CubePlayer.Y_STOP_THRESHOLD, in hundredths
YStopThreshold == 35
\* heights of the cube body after a physics step: the highest grounded
\* height and the first one above it
\* height at which the CubePlayer constructor puts the body (startPos.y)
CubeStartY == 300
CubeYSet == {CubeSize + GroundEpsilon, CubeSize + GroundEpsilon + 1}
\* vertical velocities of the cube body after a physics step: just inside
\* the threshold, and at it (falling)
CubeVySet == {YStopThreshold - 1, -YStopThreshold}
\* turnSpeed of CubePlayer.move, in tenths of a radian per second
TurnSpeedX10 == 25
\* CarController: maxSpeed, accel, decel and trackBounds in thousandths;
\* turnSpeed and 0.65 * turnSpeed in yaw units of turnSpeed / 20
CarMaxSpeed == 170
CarAccel == 11
CarDecel == 12
TrackX == 5500
TrackZ == 16500
CarTurnStep == 20
CarIdleTurnStep == 13
\* the frame deltas passed to PlayerManager.tick, in hundredths of a second
TickDeltaSet == {100}
PlayerKeys == {"cube", "car"}
\* EXTENDED_ACTION_MAP
ActionMap ==
    [toggleCamera |-> {"KeyC"}, switchPlayer |-> {"Tab"},
     moveForward |-> {"KeyW", "ArrowUp"}, moveBackward |-> {"KeyS", "ArrowDown"},
     moveLeft |-> {"KeyA", "ArrowLeft"}, moveRight |-> {"KeyD", "ArrowRight"},
     jump |-> {"Space"}, shoot |-> {"KeyF", "Mouse0"}]
\* the e.code of the keyboard events: both keys of moveForward, the key of
\* shoot, the key of jump and a key bound to nothing
InputCodes == {"KeyW", "ArrowUp", "KeyF", "Space", "KeyQ"}
\* the e.button of the mouse events: left and right
InputButtons == {0, 2}

VARIABLES
    maxEnemies,       \* EnemyManager.maxEnemies
    spawnIntervalSec, \* EnemyManager.spawnIntervalSec
    maxBullets,       \* ProjectileManager.maxBullets
    enemies,          \* EnemyManager.enemies, each EnemyCube with its entry
                      \* of EnemyManager.aiShootCooldown
    enemiesMade,      \* number of EnemyCube objects constructed so far
    lastSpawn,        \* EnemyManager.lastSpawn
    projectiles,      \* ProjectileManager.projectiles
    projMade,         \* number of Projectile objects constructed so far
    world,            \* bodies in the CANNON.World
    clock,            \* the caller's clock, passed as `now`
    emitted,          \* events emitted by the last operation, in order
    last,             \* history: the last operation, its arguments, result
    sinceFull,        \* history: time since the population was last full,
                      \* counted up to spawnIntervalSec
    timedAt,          \* history: time of the last timed spawn, -1 if none
    destroyCount,     \* history: number of EnemyCube.destroy calls made so
                      \* far on each enemy that had one
    coinCount,        \* CoinManager.coinCount, 0 when no CoinManager exists
    coins,            \* CoinManager.coins
    coinsMade,        \* number of Coin objects constructed so far
    coinsCollected,   \* CoinManager.coinsCollected
    score,            \* CoinManager.score
    hudOn,            \* whether a HUDManager is listening on the event bus
    hud,              \* HUDManager.state
    playerHealth,     \* the session's player health
    enableCube,       \* PlayerManagerConfig.enableCube !== false
    enableCar,        \* PlayerManagerConfig.enableCar !== false
    currentKey,       \* PlayerManager.currentKey
    gltfLoaded,       \* CarPlayer.gltfLoaded
    loadFailed,       \* history: loadAsync of the car model has rejected
    cube,             \* the CubePlayer: body height and vertical velocity
                      \* (hundredths), grounded, jumpKeyPressedLastFrame,
                      \* facingAngle (hundredths of a radian)
    tickLog,          \* history: the last PlayerManager.tick, its Space
                      \* key and the one of the tick before, whether it
                      \* applied the jump velocity, and the jumps applied
                      \* since Space was last seen released
    pressedKeys,      \* InputManager.pressedKeys
    actionPressed,    \* InputManager.actionPressed
    held,             \* history: the keys and mouse buttons physically
                      \* held down
    lastCallTime,     \* App.lastCallTime
    animLog,          \* history: the last App.animate, its clock reading
                      \* and the one of the call before, and the delta it
                      \* passed to moveCube and to world.step
    ai,               \* an EnemyCube's body velocity, with the offset of
                      \* the player at its last updateAI
    page,             \* the RacingGamePage, its car, the browser's
                      \* pending animation frame and timer
    bus,              \* an EventBus: the listeners of each event in the
                      \* order they were added, and the last call with
                      \* the listeners it invoked
    ctl               \* a CarController: position and velocity
                      \* (thousandths), yaw, and the rendered car's
                      \* position and yaw

cfgVars == <<maxEnemies, spawnIntervalSec, maxBullets, coinCount, hudOn>>
playerVars == <<enableCube, enableCar, currentKey, gltfLoaded, loadFailed, cube,
               tickLog>>
gameVars == <<maxEnemies, spawnIntervalSec, maxBullets, enemies, enemiesMade,
              lastSpawn, projectiles, projMade, world, clock, emitted, last,
              sinceFull, timedAt, destroyCount, coinCount, coins, coinsMade,
              coinsCollected, score, hudOn, hud, playerHealth>>
inputVars == <<pressedKeys, actionPressed, held>>
shellVars == <<lastCallTime, animLog, ai, page, bus, ctl>>
vars == <<gameVars, playerVars, inputVars, shellVars>>

Body(kind, id) == <<kind, id>>

Min(a, b) == IF a < b THEN a ELSE b

(* ------------------- the mutable program state as a record ------------ *)
Cur ==
    [enemies |-> enemies, enemiesMade |-> enemiesMade, lastSpawn |-> lastSpawn,
     projectiles |-> projectiles, projMade |-> projMade, world |-> world,
     emitted |-> <<>>, ret |-> "void", spawned |-> 0, removeReq |-> {},
     destroyed |-> {}, timedAt |-> timedAt, destroyedAlive |-> {},
     destroyCount |-> destroyCount, coins |-> coins, coinsMade |-> coinsMade,
     coinsCollected |-> coinsCollected, score |-> score,
     playerHealth |-> playerHealth, aiTurns |-> {}]

Emit(st, name, val) ==
    [st EXCEPT !.emitted = Append(@, [name |-> name, val |-> val])]

(* ------------------------------ EnemyCube ------------------------------ *)
HitFlipsOnNegative(e, damage) ==
    [e EXCEPT !.health = @ - damage,
              !.alive = IF e.health - damage < 0 /\ e.alive THEN FALSE ELSE @]

\* hit(damage)
Hit(e, damage) ==
    [e EXCEPT !.health = @ - damage,
              !.alive = IF e.health - damage <= 0 /\ e.alive THEN FALSE ELSE @]

\* new EnemyCube(cfg): health defaults to 40, alive, body added to the world
NewEnemyCube(id, cooldown) ==
    [id |-> id, health |-> StartHealth, alive |-> TRUE, cooldown |-> cooldown,
     kills |-> 0, destroyCalls |-> 0]

\* destroy(scene, world) on the i-th enemy: the body leaves the world
Destroy(st, i) ==
    [st EXCEPT !.world = @ \ {Body("e", st.enemies[i].id)},
               !.removeReq = @ \cup {Body("e", st.enemies[i].id)},
               !.destroyed = @ \cup {st.enemies[i].id},
               !.destroyedAlive = IF st.enemies[i].alive
                                  THEN @ \cup {st.enemies[i].id} ELSE @,
               !.destroyCount = IF st.enemies[i].id \in DOMAIN @
                                THEN [@ EXCEPT ![st.enemies[i].id] = @ + 1]
                                ELSE @ @@ (st.enemies[i].id :> 1),
               !.enemies[i].destroyCalls = @ + 1]

(* --------------------------- ProjectileManager ------------------------- *)
\* this.projectiles.filter(p => p.owner === owner && p.alive).length
ActiveBullets(st, owner) ==
    Cardinality({i \in 1..Len(st.projectiles) :
                    /\ st.projectiles[i].owner = owner
                    /\ st.projectiles[i].alive})

GetActiveBullets(st, owner) ==
    SelectSeq(st.projectiles,
              LAMBDA p : p.alive /\ (owner = "all" \/ p.owner = owner))

SpawnBulletOffByOne(st, pos, owner, damage) ==
    IF owner = "player" /\ ActiveBullets(st, "player") > maxBullets
    THEN [st EXCEPT !.ret = "false"]
    ELSE LET id == st.projMade + 1
             s1 == [st EXCEPT
                       !.world = @ \cup {Body("p", id)},
                       !.projMade = id,
                       !.projectiles = Append(@, [id |-> id, owner |-> owner,
                                                  alive |-> TRUE,
                                                  damage |-> damage,
                                                  pos |-> pos]),
                       !.ret = "true"]
         IN  Emit(s1, "bullet.fired", ActiveBullets(s1, owner))

SpawnBulletCapsEveryOwner(st, pos, owner, damage) ==
    IF ActiveBullets(st, owner) >= maxBullets
    THEN [st EXCEPT !.ret = "false"]
    ELSE LET id == st.projMade + 1
             s1 == [st EXCEPT
                       !.world = @ \cup {Body("p", id)},
                       !.projMade = id,
                       !.projectiles = Append(@, [id |-> id, owner |-> owner,
                                                  alive |-> TRUE,
                                                  damage |-> damage,
                                                  pos |-> pos]),
                       !.ret = "true"]
         IN  Emit(s1, "bullet.fired", ActiveBullets(s1, owner))

\* spawnBullet(position, direction, owner, speed, damage)
SpawnBulletF(st, pos, owner, damage) ==
    IF owner = "player" /\ ActiveBullets(st, "player") >= maxBullets
    THEN [st EXCEPT !.ret = "false"]
    ELSE LET id == st.projMade + 1
             s1 == [st EXCEPT
                       !.world = @ \cup {Body("p", id)},
                       !.projMade = id,
                       !.projectiles = Append(@, [id |-> id, owner |-> owner,
                                                  alive |-> TRUE,
                                                  damage |-> damage,
                                                  pos |-> pos]),
                       !.ret = "true"]
         IN  Emit(s1, "bullet.fired", ActiveBullets(s1, owner))

DespawnToggle(st, i) ==
    LET p  == st.projectiles[i]
        s1 == [st EXCEPT !.projectiles[i].alive = ~@,
                         !.world = IF p.alive THEN @ \ {Body("p", p.id)}
                                   ELSE @ \cup {Body("p", p.id)},
                         !.removeReq = @ \cup {Body("p", p.id)}]
    IN  Emit(s1, "bullet.fired", ActiveBullets(s1, p.owner))

\* _despawn(p), p the i-th projectile of the list
DespawnF(st, i) ==
    LET p  == st.projectiles[i]
        s1 == [st EXCEPT !.projectiles[i].alive = FALSE,
                         !.world = @ \ {Body("p", p.id)},
                         !.removeReq = @ \cup {Body("p", p.id)}]
    IN  Emit(s1, "bullet.fired", ActiveBullets(s1, p.owner))

OutOfBoundsFloorOnly(pos) == pos.y < FloorY

\* p.body.position.y < -12 || p.body.position.length() > 400
OutOfBounds(pos) == pos.y < FloorY \/ pos.r > MaxRange

RECURSIVE PMUpdateLoop(_, _)
PMUpdateLoop(st, i) ==
    IF i > Len(st.projectiles) THEN st
    ELSE IF ~st.projectiles[i].alive THEN PMUpdateLoop(st, i + 1)
    ELSE IF OutOfBounds(st.projectiles[i].pos)
         THEN PMUpdateLoop(DespawnF(st, i), i + 1)
         ELSE PMUpdateLoop(st, i + 1)

\* ProjectileManager.update()
PMUpdateF(st) == PMUpdateLoop(st, 1)

RECURSIVE PMResetLoop(_, _)
PMResetLoop(st, i) ==
    IF i > Len(st.projectiles) THEN st
    ELSE IF st.projectiles[i].alive
         THEN PMResetLoop(DespawnF(st, i), i + 1)
         ELSE PMResetLoop(st, i + 1)

\* ProjectileManager.reset()
PMResetF(st) ==
    Emit([PMResetLoop(st, 1) EXCEPT !.projectiles = <<>>], "bullet.fired", 0)

(* ----------------------------- EnemyManager ---------------------------- *)
\* aliveCount()
AliveCount(st) ==
    Cardinality({i \in 1..Len(st.enemies) : st.enemies[i].alive})

EmitEnemyCount(st) == Emit(st, "enemy.count.updated", AliveCount(st))

SpawnEnemyWhenBelowCap(st, r) ==
    IF AliveCount(st) >= maxEnemies THEN st
    ELSE LET id == st.enemiesMade + 1
             s1 == [st EXCEPT
                  !.enemiesMade = id,
                  !.world = @ \cup {Body("e", id)},
                  !.enemies = Append(@, NewEnemyCube(id, CooldownSpawnBase + 13 * r)),
                  !.spawned = @ + 1]
         IN  EmitEnemyCount(s1)

\* spawnEnemy(); r is the Math.random() of the cooldown, in tenths
SpawnEnemyF(st, r) ==
    LET id == st.enemiesMade + 1
        s1 == [st EXCEPT
                  !.enemiesMade = id,
                  !.world = @ \cup {Body("e", id)},
                  !.enemies = Append(@, NewEnemyCube(id, CooldownSpawnBase + 13 * r)),
                  !.spawned = @ + 1]
    IN  EmitEnemyCount(s1)

RECURSIVE SpawnInitialWaveLoop(_, _, _)
SpawnInitialWaveLoop(st, i, rs) ==
    IF i >= maxEnemies THEN st
    ELSE SpawnInitialWaveLoop(SpawnEnemyF(st, rs[i + 1]), i + 1, rs)

\* spawnInitialWave()
SpawnInitialWaveF(st, rs) == SpawnInitialWaveLoop(st, 0, rs)

SpawnDueAtInterval(st, now) ==
    now - st.lastSpawn >= spawnIntervalSec /\ AliveCount(st) < maxEnemies

\* now - this.lastSpawn > this.spawnIntervalSec && aliveCount() < maxEnemies
SpawnDue(st, now) ==
    now - st.lastSpawn > spawnIntervalSec /\ AliveCount(st) < maxEnemies

StampCatchUp(st, now) ==
    [st EXCEPT !.lastSpawn = @ + spawnIntervalSec, !.timedAt = now]

\* this.lastSpawn = now
StampSpawn(st, now) ==
    [st EXCEPT !.lastSpawn = now, !.timedAt = now]

TimedSpawn(st, now, r) ==
    IF SpawnDue(st, now) THEN StampSpawn(SpawnEnemyF(st, r), now) ELSE st

\* one alive enemy's turn in the loop of update; inRange: toPlayer.length() < 68
AIStepKeepsCooldown(st, i, dt, inRange, r) ==
    LET c1 == st.enemies[i].cooldown - dt
        s1 == IF c1 < 0 /\ inRange
              THEN SpawnBulletF(st, EnemyMuzzle, "enemy", EnemyBulletDamage)
              ELSE st
    IN  [s1 EXCEPT !.ret = st.ret, !.enemies[i].cooldown = c1,
                   !.aiTurns = @ \cup {st.enemies[i].id}]

AIStep(st, i, dt, inRange, r) ==
    LET c1 == st.enemies[i].cooldown - dt
        s1 == IF c1 < 0 /\ inRange
              THEN SpawnBulletF(st, EnemyMuzzle, "enemy", EnemyBulletDamage)
              ELSE st
        c2 == IF c1 < 0 THEN CooldownResetBase + 10 * r ELSE c1
    IN  [s1 EXCEPT !.ret = st.ret, !.enemies[i].cooldown = c2,
                   !.aiTurns = @ \cup {st.enemies[i].id}]

RECURSIVE AILoopNoSkip(_, _, _, _, _)
AILoopNoSkip(st, i, dt, rng, rnd) ==
    IF i > Len(st.enemies) THEN st
    ELSE LET id == st.enemies[i].id
         IN  AILoopNoSkip(AIStep(st, i, dt,
                                 IF id \in DOMAIN rng THEN rng[id] ELSE TRUE,
                                 IF id \in DOMAIN rnd THEN rnd[id] ELSE 0),
                          i + 1, dt, rng, rnd)

\* the loop of update over this.enemies, from enemy i on: a dead enemy is
\* skipped, an alive one takes its turn
RECURSIVE AILoop(_, _, _, _, _)
AILoop(st, i, dt, rng, rnd) ==
    IF i > Len(st.enemies) THEN st
    ELSE IF ~st.enemies[i].alive THEN AILoop(st, i + 1, dt, rng, rnd)
    ELSE AILoop(AIStep(st, i, dt, rng[st.enemies[i].id], rnd[st.enemies[i].id]),
                i + 1, dt, rng, rnd)

RECURSIVE RemoveDeadLoop(_, _)
RemoveDeadLoop(st, i) ==
    IF i > Len(st.enemies) THEN st
    ELSE IF ~st.enemies[i].alive
         THEN RemoveDeadLoop(Destroy(st, i), i + 1)
         ELSE RemoveDeadLoop(st, i + 1)

PruneNothing(st) == st

\* this.enemies = this.enemies.filter(e => e.alive)
Prune(st) ==
    [st EXCEPT !.enemies = SelectSeq(@, LAMBDA e : e.alive)]

\* update(dt, now, playerBodies)
UpdateF(st, dt, now, r0, rng, rnd) ==
    EmitEnemyCount(
        Prune(RemoveDeadLoop(AILoop(TimedSpawn(st, now, r0), 1, dt, rng, rnd), 1)))

IndexOfBody(st, body) ==
    {i \in 1..Len(st.enemies) : Body("e", st.enemies[i].id) = body}

HitAt(st, i, damage) ==
    LET s1 == [st EXCEPT !.enemies[i] = Hit(@, damage)]
        s2 == IF ~s1.enemies[i].alive
              THEN Emit([s1 EXCEPT !.enemies[i].kills = @ + 1],
                        "score.updated", KillScore)
              ELSE s1
    IN  EmitEnemyCount(s2)

CheckHitNoSkip(st, body, damage) ==
    IF IndexOfBody(st, body) # {}
    THEN HitAt(st, CHOOSE i \in IndexOfBody(st, body) : TRUE, damage)
    ELSE st

\* checkHit(hitBody, damage); a body belongs to at most one enemy
CheckHitF(st, body, damage) ==
    IF \E i \in IndexOfBody(st, body) : st.enemies[i].alive
    THEN HitAt(st, CHOOSE i \in IndexOfBody(st, body) : st.enemies[i].alive,
               damage)
    ELSE st

RECURSIVE EMResetLoop(_, _)
EMResetLoop(st, i) ==
    IF i > Len(st.enemies) THEN st
    ELSE EMResetLoop(Destroy(st, i), i + 1)

EMResetKeepsList(st) == EmitEnemyCount(EMResetLoop(st, 1))

\* EnemyManager.reset()
EMResetF(st) ==
    EmitEnemyCount([EMResetLoop(st, 1) EXCEPT !.enemies = <<>>])

(* ----------------------------- CoinManager ----------------------------- *)
\* distance between two points of a line, in tenths of a unit
Dist(a, b) == IF a < b THEN b - a ELSE a - b

\* _isColliding(bodyA, bodyB): dist < 2.2
IsColliding(coinPos, playerPos) == Dist(coinPos, playerPos) < CoinThreshold

RECURSIVE SpawnCoinsLoop(_, _, _)
SpawnCoinsLoop(st, i, ps) ==
    IF i >= coinCount THEN st
    ELSE LET id == st.coinsMade + 1
         IN  SpawnCoinsLoop(
                 [st EXCEPT !.coinsMade = id,
                            !.world = @ \cup {Body("c", id)},
                            !.coins = Append(@, [id |-> id, pos |-> ps[i + 1],
                                                 collected |-> FALSE,
                                                 pickups |-> 0])],
                 i + 1, ps)

\* spawnCoins(); ps are the random positions of the new coins
SpawnCoinsF(st, ps) ==
    Emit(SpawnCoinsLoop(st, 0, ps), "hud.update", [coinsTotal |-> coinCount])

\* the body of `if (this._isColliding(coin.body, playerBody))` for coin i
CollectF(st, i) ==
    LET s1 == [st EXCEPT !.coins[i].collected = TRUE,
                         !.coins[i].pickups = @ + 1,
                         !.world = @ \ {Body("c", st.coins[i].id)},
                         !.removeReq = @ \cup {Body("c", st.coins[i].id)},
                         !.coinsCollected = @ + 1,
                         !.score = @ + CoinScore]
    IN  Emit(s1, "coin.collected",
             [coins |-> s1.coinsCollected, coinsTotal |-> coinCount,
              score |-> s1.score])

\* the inner loop over playerBodies for coin i, from player k on: the first
\* player in range collects the coin and the loop breaks
RECURSIVE PlayersLoop(_, _, _, _)
PlayersLoop(st, i, players, k) ==
    IF k > Len(players) THEN st
    ELSE IF IsColliding(st.coins[i].pos, players[k]) THEN CollectF(st, i)
    ELSE PlayersLoop(st, i, players, k + 1)

RECURSIVE CMUpdateNoSkip(_, _, _)
CMUpdateNoSkip(st, i, players) ==
    IF i > Len(st.coins) THEN st
    ELSE CMUpdateNoSkip(PlayersLoop(st, i, players, 1), i + 1, players)

RECURSIVE CMUpdateLoop(_, _, _)
CMUpdateLoop(st, i, players) ==
    IF i > Len(st.coins) THEN st
    ELSE IF st.coins[i].collected THEN CMUpdateLoop(st, i + 1, players)
    ELSE CMUpdateLoop(PlayersLoop(st, i, players, 1), i + 1, players)

\* CoinManager.update(playerBodies)
CMUpdateF(st, players) == CMUpdateLoop(st, 1, players)

RECURSIVE CMRemoveLoop(_, _)
CMRemoveLoop(st, i) ==
    IF i > Len(st.coins) THEN st
    ELSE CMRemoveLoop([st EXCEPT !.world = @ \ {Body("c", st.coins[i].id)},
                                 !.removeReq = @ \cup {Body("c", st.coins[i].id)}],
                      i + 1)

CMResetKeepsCount(st, ps) ==
    SpawnCoinsF([CMRemoveLoop(st, 1) EXCEPT !.coins = <<>>,
                                            !.score = 0], ps)

CMResetKeepsScore(st, ps) ==
    SpawnCoinsF([CMRemoveLoop(st, 1) EXCEPT !.coins = <<>>,
                                            !.coinsCollected = 0], ps)

\* CoinManager.reset()
CMResetF(st, ps) ==
    SpawnCoinsF([CMRemoveLoop(st, 1) EXCEPT !.coins = <<>>,
                                            !.coinsCollected = 0,
                                            !.score = 0], ps)

\* new CoinManager(cfg)
CMConstructF(st, ps) ==
    LET s1 == SpawnCoinsF(st, ps)
    IN  Emit(s1, "coin.collected",
             [coins |-> 0, coinsTotal |-> coinCount, score |-> s1.score])

(* ------------------------------ HUDManager ----------------------------- *)
\* DEFAULT_STATE
DefaultState ==
    [score |-> 0, coins |-> 0, coinsTotal |-> 0, health |-> HudStartHealth,
     bullets |-> 0, maxBullets |-> 0, enemies |-> 0]

\* the listeners the constructor registers, each a setState(partial)
HudOnEvent(h, ev) ==
    IF ev.name = "hud.update" THEN [h EXCEPT !.coinsTotal = ev.val.coinsTotal]
    ELSE IF ev.name = "coin.collected"
         THEN [h EXCEPT !.coins = ev.val.coins,
                        !.coinsTotal = ev.val.coinsTotal,
                        !.score = ev.val.score]
    ELSE IF ev.name = "score.updated" THEN [h EXCEPT !.score = ev.val]
    ELSE IF ev.name = "player.health.changed" THEN [h EXCEPT !.health = ev.val]
    ELSE IF ev.name = "bullet.fired" THEN [h EXCEPT !.bullets = ev.val]
    ELSE IF ev.name = "bullet.max" THEN [h EXCEPT !.maxBullets = ev.val]
    ELSE IF ev.name = "enemy.count.updated" THEN [h EXCEPT !.enemies = ev.val]
    ELSE h

\* the events of one operation delivered, in order, to the listeners
RECURSIVE Deliver(_, _, _)
Deliver(h, evs, k) ==
    IF k > Len(evs) THEN h ELSE Deliver(HudOnEvent(h, evs[k]), evs, k + 1)

(* --------------------------- collision resolver ------------------------ *)
ClampNothing(h) == h

\* health is clamped at 0
ClampHealth(h) == IF h < 0 THEN 0 ELSE h

\* the i-th projectile, enemy-owned and alive, hits the active player:
\* decrement the health, clamp it, emit the health-changed event, despawn
\* the projectile
PlayerHitF(st, i) ==
    LET h == ClampHealth(st.playerHealth - st.projectiles[i].damage)
    IN  DespawnF(Emit([st EXCEPT !.playerHealth = h],
                      "player.health.changed", h), i)

(* ------------------------- players, PlayerManager ---------------------- *)
Abs(x) == IF x < 0 THEN -x ELSE x

\* this.players, as the set of its keys
Players == (IF enableCube THEN {"cube"} ELSE {}) \cup
           (IF enableCar THEN {"car"} ELSE {})

\* currentKey after the constructor: cube if present, otherwise car
InitialKey == IF enableCube THEN "cube" ELSE IF enableCar THEN "car" ELSE "cube"

\* setActivePlayer(key): the new currentKey
SetActivePlayerF(key) == IF key \in Players THEN key ELSE currentKey

\* switchPlayer(): the new currentKey
SwitchPlayerF ==
    IF Cardinality(Players) < 2 THEN currentKey
    ELSE IF currentKey = "cube" /\ "car" \in Players /\ gltfLoaded THEN "car"
    ELSE "cube"

\* the grounded test of CubePlayer.move
Grounded(c) ==
    c.y <= CubeSize + GroundEpsilon /\ Abs(c.vy) < YStopThreshold

MoveCubeWhileHeld(c, space) ==
    [c EXCEPT !.grounded = Grounded(c) /\ ~space,
              !.vy = IF space /\ Grounded(c) THEN JumpVelocity ELSE @,
              !.jumpKeyPressedLastFrame = space]

\* CubePlayer.move(delta, keys), space being keys['Space'] || false
MoveCube(c, space) ==
    LET jump == space /\ ~c.jumpKeyPressedLastFrame /\ Grounded(c)
    IN  [c EXCEPT !.grounded = Grounded(c) /\ ~jump,
                  !.vy = IF jump THEN JumpVelocity ELSE @,
                  !.jumpKeyPressedLastFrame = space]

\* new CubePlayer(scene, world, cubeMaterial)
NewCube == [y |-> CubeStartY, vy |-> 0, grounded |-> FALSE,
            jumpKeyPressedLastFrame |-> FALSE, facingAngle |-> 0]

\* the turn of CubePlayer.move: KeyA adds turnSpeed * delta to facingAngle
\* and KeyD subtracts it
TurnCube(c, delta, keyA, keyD) ==
    LET step == (TurnSpeedX10 * delta) \div 10
    IN  [c EXCEPT !.facingAngle = @ + (IF keyA THEN step ELSE 0)
                                    - (IF keyD THEN step ELSE 0)]

TickTargetsAll(key) == Players

\* the players PlayerManager.tick calls move and syncToPhysics on: the
\* active player, if there is one
TickTargets(key) == IF key \in Players THEN {key} ELSE {}

\* tickLog before the first tick
NoTick == [active |-> "none", space |-> FALSE, prevSpace |-> FALSE,
           cubeSpace |-> FALSE, prevCubeSpace |-> FALSE, jumped |-> FALSE,
           y |-> 0, vy |-> 0, jumpsThisPress |-> 0, threw |-> FALSE,
           moved |-> {}, failed |-> FALSE]

(* ------------------------------ InputManager --------------------------- *)
\* the actions whose bindings include code
ActionsOf(code) == {a \in DOMAIN ActionMap : code \in ActionMap[a]}

\* the name a mouse button is held under
ButtonName(b) == IF b = 0 THEN "Mouse0" ELSE "Mouse2"

\* isActionActive(action)
IsActionActive(action) == action \in actionPressed

\* no InputManager exists and nothing is held
NoInput ==
    /\ pressedKeys = {}
    /\ actionPressed = {}
    /\ held = {}

\* players and input exist in no state of the managers' specifications
NoPlayers ==
    /\ enableCube = FALSE
    /\ enableCar = FALSE
    /\ currentKey = "cube"
    /\ gltfLoaded = FALSE
    /\ loadFailed = FALSE
    /\ cube = NewCube
    /\ tickLog = NoTick

(* --------------------------------- App --------------------------------- *)
\* lastCallTime before the first animate: undefined
Undefined == -1

\* the delta App.animate computes from lastCallTime and the clock reading
AnimateDelta(lct, time) ==
    IF lct # Undefined /\ lct # 0 THEN time - lct ELSE 0

(* ------------------------------ EnemyCube ------------------------------ *)
\* the offsets of the player from the enemy on each horizontal axis, and
\* the vertical velocities the physics step gives the enemy's body
AiOffsets == {-91, -54, -11, -6, 0, 8, 10, 72, 89, 90}
AiVySet == {0, -200}

\* Math.atan2(dx, dz) as the direction of that angle; atan2(0, 0) is 0
Atan2Dir(dx, dz) == IF dx = 0 /\ dz = 0 THEN <<0, 1>> ELSE <<dx, dz>>

\* the body of a new EnemyCube, at rest. A horizontal velocity is the
\* vector num divided by the square root of den2, facingAngle is held as
\* the direction it points in
NewEnemyBody == [dx |-> 0, dz |-> 0, num |-> <<0, 0>>, den2 |-> 1, vy |-> 0,
                 preVy |-> 0, called |-> FALSE, facing |-> <<0, 1>>]

UpdateAIInclusive(b, dx, dz) ==
    LET d2 == dx * dx + dz * dz
    IN  IF d2 >= 100 /\ d2 <= 8100
        THEN [b EXCEPT !.dx = dx, !.dz = dz, !.num = <<8 * dx, 8 * dz>>,
                       !.den2 = d2, !.preVy = b.vy, !.called = TRUE,
                       !.facing = Atan2Dir(dx, dz)]
        ELSE [b EXCEPT !.dx = dx, !.dz = dz, !.num = <<0, 0>>, !.den2 = 1,
                       !.preVy = b.vy, !.called = TRUE,
                       !.facing = Atan2Dir(dx, dz)]

\* EnemyCube.updateAI(dt, playerPos), dx and dz being the player's offset:
\* distance > 10 && distance < 90 compared on the squares, and
\* 8 * sin(atan2(dx, dz)) = 8 * dx / distance, 8 * cos(atan2(dx, dz)) =
\* 8 * dz / distance
UpdateAIF(b, dx, dz) ==
    LET d2 == dx * dx + dz * dz
    IN  IF d2 > 100 /\ d2 < 8100
        THEN [b EXCEPT !.dx = dx, !.dz = dz, !.num = <<8 * dx, 8 * dz>>,
                       !.den2 = d2, !.preVy = b.vy, !.called = TRUE,
                       !.facing = Atan2Dir(dx, dz)]
        ELSE [b EXCEPT !.dx = dx, !.dz = dz, !.num = <<0, 0>>, !.den2 = 1,
                       !.preVy = b.vy, !.called = TRUE,
                       !.facing = Atan2Dir(dx, dz)]

(* ---------------------------- RacingGamePage --------------------------- *)
\* a RacingGamePage after its constructor: nothing created, no frame or
\* timer pending. animationId and pending are 0 for null and none
NewPage == [connected |-> FALSE, hasCanvas |-> FALSE, renderer |-> FALSE,
            scene |-> FALSE, camera |-> FALSE, car |-> FALSE,
            carController |-> FALSE, animationId |-> 0, pending |-> 0,
            handles |-> 0, isLoaded |-> FALSE, loadDone |-> FALSE,
            timer |-> FALSE, launches |-> 0, launchedUnloaded |-> FALSE,
            tornDown |-> FALSE, lateRenders |-> 0,
            isCinematicActive |-> TRUE, cinematic |-> "idle",
            controls |-> [up |-> FALSE, down |-> FALSE, left |-> FALSE,
                          right |-> FALSE],
            keysIgnored |-> FALSE, polls |-> 0]

\* render(): draws and requests the next frame while renderer, scene and
\* camera are set
RenderF(p) ==
    LET p1 == [p EXCEPT !.lateRenders = @ + (IF p.tornDown THEN 1 ELSE 0)]
    IN  IF p1.renderer /\ p1.scene /\ p1.camera
        THEN [p1 EXCEPT !.handles = @ + 1, !.animationId = p.handles + 1,
                        !.pending = p.handles + 1]
        ELSE p1

WaitForCarLoadNoCheck(p) ==
    IF p.car
    THEN [p EXCEPT !.launches = @ + 1,
                   !.launchedUnloaded = @ \/ ~p.isLoaded,
                   !.cinematic = IF @ = "idle" THEN "running" ELSE @]
    ELSE [p EXCEPT !.timer = TRUE]

\* waitForCarLoad(): launchCinematic() once the car is loaded, otherwise
\* setTimeout(waitForCarLoad, 60)
WaitForCarLoadF(p) ==
    IF p.car /\ p.isLoaded
    THEN [p EXCEPT !.launches = @ + 1,
                   !.launchedUnloaded = @ \/ ~p.isLoaded,
                   !.cinematic = IF @ = "idle" THEN "running" ELSE @]
    ELSE [p EXCEPT !.timer = TRUE]

CancelNothing(pending, id) == pending

\* cancelAnimationFrame(id): the browser's pending frame afterwards
CancelAnimationFrame(pending, id) == IF pending = id THEN 0 ELSE pending

(* ------------------------------- EventBus ------------------------------ *)
\* the event names used on the bus
BusEvents == {"bullet.fired", "bullet.max"}

InvokeEveryEvent(b, event) ==
    [b EXCEPT !.invoked = b.listeners["bullet.fired"] \o b.listeners["bullet.max"]]

\* the loop of emit(event, payload): every listener in the Set of the
\* event is called, in insertion order
InvokeAll(b, event) ==
    [b EXCEPT !.invoked = IF event \in DOMAIN b.listeners
                          THEN b.listeners[event] ELSE <<>>]

(* ----------------------------- CarController --------------------------- *)
\* new CarController(car): at the origin, at rest, yaw 0
\* lengths and the velocity are in thousandths of a unit, the yaw in
\* twentieths of turnSpeed (0.000875 rad); updates counts the calls
NewCtl == [x |-> 0, z |-> 0, velocity |-> 0, rotationY |-> 0,
           carX |-> 0, carZ |-> 0, carRotY |-> 0, updates |-> 0]

\* Math.sin of a yaw, in thousandths: Bhaskara's rational approximation on
\* each half turn of 3590 yaw units (error below 0.002), scaled to stay
\* within 32 bits; Math.cos(r) is SinMilli(r + 1795)
SinMilli(r) ==
    LET m == r % 7180
        h == IF m <= 3590 THEN m ELSE m - 3590
        q == h * (3590 - h)
        d == (5 * 3590 * 3590 - 4 * q) \div 100
        v == (16000 * (q \div 100) + d \div 2) \div d
    IN  IF m <= 3590 THEN v ELSE 0 - v

CarUpdateNoClamp(c, controls) ==
    LET v1 == IF controls.up /\ ~controls.down THEN c.velocity + CarAccel
              ELSE IF ~controls.up /\ controls.down
                   THEN c.velocity - CarAccel
              ELSE IF c.velocity > 0
                   THEN (IF c.velocity > CarDecel
                         THEN c.velocity - CarDecel ELSE 0)
              ELSE IF c.velocity < 0
                   THEN (IF c.velocity + CarDecel < 0
                         THEN c.velocity + CarDecel ELSE 0)
              ELSE c.velocity
        turn == IF v1 > 0 THEN CarTurnStep
                ELSE IF v1 < 0 THEN 0 - CarTurnStep ELSE CarIdleTurnStep
        r1 == IF controls.right /\ ~controls.left THEN c.rotationY - turn
              ELSE c.rotationY
        r2 == IF controls.left /\ ~controls.right THEN r1 + turn ELSE r1
        x1 == IF v1 # 0 THEN c.x + (SinMilli(r2) * v1) \div 1000 ELSE c.x
        z1 == IF v1 # 0 THEN c.z + (SinMilli(r2 + 1795) * v1) \div 1000
              ELSE c.z
    IN  [x |-> x1, z |-> z1, velocity |-> v1, rotationY |-> r2,
         carX |-> x1, carZ |-> z1, carRotY |-> r2, updates |-> c.updates + 1]

\* CarController.update(controls): accelerate, brake or coast, clamp the
\* velocity, turn, move along the yaw, clamp to the track, place the car
CarUpdateF(c, controls) ==
    LET v1 == IF controls.up /\ ~controls.down THEN c.velocity + CarAccel
              ELSE IF ~controls.up /\ controls.down
                   THEN c.velocity - CarAccel
              ELSE IF c.velocity > 0
                   THEN (IF c.velocity > CarDecel
                         THEN c.velocity - CarDecel ELSE 0)
              ELSE IF c.velocity < 0
                   THEN (IF c.velocity + CarDecel < 0
                         THEN c.velocity + CarDecel ELSE 0)
              ELSE c.velocity
        v2 == IF v1 > CarMaxSpeed THEN CarMaxSpeed
              ELSE IF 2 * v1 < 0 - CarMaxSpeed THEN 0 - (CarMaxSpeed \div 2)
              ELSE v1
        turn == IF v2 > 0 THEN CarTurnStep
                ELSE IF v2 < 0 THEN 0 - CarTurnStep ELSE CarIdleTurnStep
        r1 == IF controls.right /\ ~controls.left THEN c.rotationY - turn
              ELSE c.rotationY
        r2 == IF controls.left /\ ~controls.right THEN r1 + turn ELSE r1
        x1 == IF v2 # 0 THEN c.x + (SinMilli(r2) * v2) \div 1000 ELSE c.x
        z1 == IF v2 # 0 THEN c.z + (SinMilli(r2 + 1795) * v2) \div 1000
              ELSE c.z
        x2 == IF x1 < 0 - TrackX THEN 0 - TrackX
              ELSE IF x1 > TrackX THEN TrackX ELSE x1
        z2 == IF z1 < 0 - TrackZ THEN 0 - TrackZ
              ELSE IF z1 > TrackZ THEN TrackZ ELSE z1
    IN  [x |-> x2, z |-> z2, velocity |-> v2, rotationY |-> r2,
         carX |-> x2, carZ |-> z2, carRotY |-> r2, updates |-> c.updates + 1]

\* the App, the EnemyCube and the page exist in no state of the other
\* specifications
NoShell ==
    /\ lastCallTime = Undefined
    /\ animLog = [ticks |-> 0, time |-> 0, prev |-> 0, moveDelta |-> 0,
                  stepDelta |-> 0]
    /\ ai = NewEnemyBody
    /\ page = NewPage
    /\ bus = [listeners |-> [e \in BusEvents |-> <<>>], op |-> "new",
              event |-> "none", listener |-> 0, invoked |-> <<>>,
              twice |-> {}]

(* ------------------------------- actions ------------------------------- *)
\* history of the enemy's shooting, before its first followed update: the
\* dt, range test, cooldown and shots of the update, the dt accumulated
\* since the enemy's previous shot, and whether it has shot before
NoCd == [dt |-> 0, inRange |-> FALSE, pre |-> 0, shots |-> 0, gap |-> 0,
         since |-> 0, shotBefore |-> FALSE, hadShot |-> FALSE]

\* what `last` records of a call: its arguments, and whether its target was
\* alive and how many live projectiles its owner had when it was made
NoArgs == [owner |-> "none", target |-> Body("none", 0), damage |-> 0,
           preAlive |-> FALSE, preCount |-> 0, players |-> <<>>, cd |-> NoCd]

Commit(st, op, args, t) ==
    /\ enemies' = st.enemies
    /\ enemiesMade' = st.enemiesMade
    /\ lastSpawn' = st.lastSpawn
    /\ projectiles' = st.projectiles
    /\ projMade' = st.projMade
    /\ world' = st.world
    /\ emitted' = st.emitted
    /\ timedAt' = st.timedAt
    /\ destroyCount' = st.destroyCount
    /\ coins' = st.coins
    /\ coinsMade' = st.coinsMade
    /\ coinsCollected' = st.coinsCollected
    /\ score' = st.score
    /\ playerHealth' = st.playerHealth
    /\ hud' = IF hudOn THEN Deliver(hud, st.emitted, 1) ELSE hud
    /\ clock' = t
    /\ sinceFull' = IF AliveCount(st) = maxEnemies THEN 0
                    ELSE Min(sinceFull + (t - clock), spawnIntervalSec)
    /\ UNCHANGED <<playerVars, inputVars, shellVars>>
    /\ last' = [op |-> op, owner |-> args.owner, target |-> args.target,
                damage |-> args.damage, preAlive |-> args.preAlive,
                preCount |-> args.preCount, ret |-> st.ret,
                spawned |-> st.spawned, removeReq |-> st.removeReq,
                destroyed |-> st.destroyed,
                destroyedAlive |-> st.destroyedAlive,
                players |-> args.players, aiTurns |-> st.aiTurns,
                cd |-> args.cd]
    /\ UNCHANGED cfgVars

Fresh(nMaxBullets) ==
    [enemies |-> <<>>, enemiesMade |-> 0, lastSpawn |-> 0,
     projectiles |-> <<>>, projMade |-> 0, world |-> {}, ret |-> "void",
     spawned |-> 0, removeReq |-> {}, destroyed |-> {}, timedAt |-> -1,
     destroyedAlive |-> {}, destroyCount |-> <<>>,
     coins |-> <<>>, coinsMade |-> 0, coinsCollected |-> 0, score |-> 0,
     playerHealth |-> HudStartHealth, aiTurns |-> {},
     emitted |-> <<[name |-> "bullet.max", val |-> nMaxBullets]>>]

StartWith(st) ==
    /\ enemies = st.enemies
    /\ enemiesMade = st.enemiesMade
    /\ lastSpawn = st.lastSpawn
    /\ projectiles = st.projectiles
    /\ projMade = st.projMade
    /\ world = st.world
    /\ emitted = st.emitted
    /\ timedAt = st.timedAt
    /\ destroyCount = st.destroyCount
    /\ coins = st.coins
    /\ coinsMade = st.coinsMade
    /\ coinsCollected = st.coinsCollected
    /\ score = st.score
    /\ playerHealth = st.playerHealth
    /\ hud = IF hudOn THEN Deliver(DefaultState, st.emitted, 1) ELSE DefaultState
    /\ clock = 0
    /\ sinceFull = IF AliveCount(st) = maxEnemies THEN 0 ELSE spawnIntervalSec
    /\ last = [op |-> "constructor", owner |-> "none",
               target |-> Body("none", 0), damage |-> 0, preAlive |-> FALSE,
               preCount |-> 0, ret |-> "void",
               spawned |-> st.spawned, removeReq |-> {}, destroyed |-> {},
               destroyedAlive |-> {}, players |-> <<>>, aiTurns |-> {},
               cd |-> NoCd]

\* the state after `new ProjectileManager(cfg)`; no EnemyManager exists
InitPM ==
    /\ NoPlayers
    /\ NoInput
    /\ NoShell
    /\ ctl = NewCtl
    /\ coinCount = 0
    /\ hudOn = FALSE
    /\ maxEnemies = 0
    /\ spawnIntervalSec = 1
    /\ maxBullets \in 1..MaxBulletsCfg
    /\ StartWith(Fresh(maxBullets))

\* the state after `new ProjectileManager({maxBullets: 1})` and
\* `new EnemyManager(cfg)`, whose constructor spawns the initial wave
InitEM ==
    /\ NoPlayers
    /\ NoInput
    /\ NoShell
    /\ ctl = NewCtl
    /\ coinCount = 0
    /\ hudOn = FALSE
    /\ maxEnemies \in 1..MaxEnemiesCfg
    /\ spawnIntervalSec = IntervalCfg
    /\ maxBullets = 1
    /\ \E rs \in [1..maxEnemies -> RandSet] :
          StartWith(EmitEnemyCount(SpawnInitialWaveF(Fresh(maxBullets), rs)))

\* the state after `new HUDManager()`, `new ProjectileManager({maxBullets:
\* 1})` and `new CoinManager(cfg)`; no EnemyManager exists
InitCM ==
    /\ NoPlayers
    /\ NoInput
    /\ NoShell
    /\ ctl = NewCtl
    /\ coinCount \in 1..MaxCoinCfg
    /\ hudOn = TRUE
    /\ maxEnemies = 0
    /\ spawnIntervalSec = 1
    /\ maxBullets = 1
    /\ \E ps \in [1..coinCount -> CoinPosSet] :
          StartWith(CMConstructF(Fresh(maxBullets), ps))

\* the state after `new HUDManager()`, `new ProjectileManager({maxBullets:
\* 1})`, `new EnemyManager(cfg)` and `new CoinManager(cfg)`
InitHUD ==
    /\ NoPlayers
    /\ NoInput
    /\ NoShell
    /\ ctl = NewCtl
    /\ coinCount \in 1..MaxCoinCfg
    /\ hudOn = TRUE
    /\ maxEnemies \in 1..MaxEnemiesCfg
    /\ spawnIntervalSec = IntervalCfg
    /\ maxBullets = 1
    /\ \E rs \in [1..maxEnemies -> RandSet], ps \in [1..coinCount -> CoinPosSet] :
          StartWith(CMConstructF(
              EmitEnemyCount(SpawnInitialWaveF(Fresh(maxBullets), rs)), ps))

\* the caller's clock advances
AdvanceClock ==
    /\ clock < MaxClock
    /\ Commit(Cur, "tick", NoArgs, clock + 1)

\* cannon-es moves a projectile body that is in the world
PhysicsStep ==
    \E i \in 1..Len(projectiles) : \E pos \in PosSet :
        /\ Body("p", projectiles[i].id) \in world
        /\ pos # projectiles[i].pos
        /\ Commit([Cur EXCEPT !.projectiles[i].pos = pos], "step", NoArgs, clock)

\* cannon-es steps and every projectile body stays where it is (a body
\* at rest on the ground plane)
PhysicsRest ==
    /\ \E i \in 1..Len(projectiles) : Body("p", projectiles[i].id) \in world
    /\ Commit(Cur, "rest", NoArgs, clock)

SpawnBullet ==
    \E pos \in PosSet, owner \in Owners :
        /\ projMade < MaxProjIds
        /\ Commit(SpawnBulletF(Cur, pos, owner,
                               IF owner = "player" THEN PlayerBulletDamage
                               ELSE EnemyBulletDamage),
                  "spawnBullet",
                  [NoArgs EXCEPT !.owner = owner,
                                 !.preCount = ActiveBullets(Cur, owner)], clock)

PMUpdate == Commit(PMUpdateF(Cur), "pm.update", NoArgs, clock)

Despawn ==
    \E i \in 1..Len(projectiles) :
        Commit(DespawnF(Cur, i), "_despawn",
               [NoArgs EXCEPT !.target = Body("p", projectiles[i].id),
                              !.owner = projectiles[i].owner,
                              !.preAlive = projectiles[i].alive,
                              !.preCount = ActiveBullets(Cur, projectiles[i].owner)],
               clock)

PMReset == Commit(PMResetF(Cur), "pm.reset", NoArgs, clock)

SpawnEnemy ==
    \E r \in RandSet :
        /\ enemiesMade < MaxEnemyIds
        /\ Commit(SpawnEnemyF(Cur, r), "spawnEnemy", NoArgs, clock)

SpawnInitialWave ==
    \E rs \in [1..maxEnemies -> RandSet] :
        /\ enemiesMade + maxEnemies <= MaxEnemyIds
        /\ Commit(SpawnInitialWaveF(Cur, rs), "spawnInitialWave", NoArgs, clock)

\* the enemies that take a turn in the AI loop of update(dt, now)
AITurns(st) ==
    {st.enemies[i].id : i \in {j \in 1..Len(st.enemies) : st.enemies[j].alive}}

Update ==
    \E dt \in DtSet, r0 \in RandSet :
      \E rng \in [AITurns(TimedSpawn(Cur, clock, r0)) -> BOOLEAN] :
        \E rnd \in [AITurns(TimedSpawn(Cur, clock, r0)) -> RandSet] :
            LET st == UpdateF(Cur, dt, clock, r0, rng, rnd)
            IN  /\ st.enemiesMade <= MaxEnemyIds
                /\ st.projMade <= MaxProjIds
                /\ Commit(st, "update", NoArgs, clock)

\* the frame deltas and Math.random() values of the updates whose cooldown
\* is followed, in hundredths of a second and in tenths
CdDtSet == {0, 60, 171}
CdRandSet == {0, 9}

\* the state after `new EnemyManager(cfg)` with maxEnemies = 1
InitCD ==
    /\ InitEM
    /\ maxEnemies = 1

\* update(dt, now, playerBodies) on one alive enemy, the player within
\* range or not, with the history of the enemy's shots
UpdateCD ==
    \E dt \in CdDtSet, inRange \in BOOLEAN, r \in CdRandSet :
        LET ids == AITurns(TimedSpawn(Cur, clock, 0))
            st == UpdateF(Cur, dt, clock, 0, [id \in ids |-> inRange],
                          [id \in ids |-> r])
            shots == st.projMade - projMade
            gap == Min(last.cd.since + dt, 2 * CooldownResetBase)
        IN  /\ Len(enemies) = 1
            /\ st.projMade <= MaxProjIds
            /\ Commit(st, "update",
                      [NoArgs EXCEPT !.cd =
                          [dt |-> dt, inRange |-> inRange,
                           pre |-> enemies[1].cooldown, shots |-> shots,
                           gap |-> gap,
                           since |-> IF shots > 0 THEN 0 ELSE gap,
                           hadShot |-> last.cd.shotBefore,
                           shotBefore |-> last.cd.shotBefore \/ shots > 0]],
                      clock)

CheckHit ==
    \E body \in {Body("e", i) : i \in 1..enemiesMade} \cup {Body("p", 1)} :
      \E damage \in DamageSet :
        Commit(CheckHitF(Cur, body, damage), "checkHit",
               [NoArgs EXCEPT !.target = body, !.damage = damage,
                              !.preAlive = \E i \in IndexOfBody(Cur, body) :
                                              enemies[i].alive],
               clock)

EMReset == Commit(EMResetF(Cur), "em.reset", NoArgs, clock)

\* the state after `new HUDManager()` and `new ProjectileManager({maxBullets:
\* 1})`, with the player at full health
InitPH ==
    /\ NoPlayers
    /\ NoInput
    /\ NoShell
    /\ ctl = NewCtl
    /\ coinCount = 0
    /\ hudOn = TRUE
    /\ maxEnemies = 0
    /\ spawnIntervalSec = 1
    /\ maxBullets = 1
    /\ StartWith(Fresh(maxBullets))

\* an enemy projectile is fired
EnemyShot ==
    \E damage \in HitDamageSet :
        /\ projMade < MaxShots
        /\ Commit(SpawnBulletF(Cur, EnemyMuzzle, "enemy", damage), "spawnBullet",
                  [NoArgs EXCEPT !.owner = "enemy", !.damage = damage,
                                 !.preCount = ActiveBullets(Cur, "enemy")], clock)

\* the resolver finds an enemy projectile overlapping the player
PlayerHit ==
    \E i \in 1..Len(projectiles) :
        /\ projectiles[i].alive
        /\ projectiles[i].owner = "enemy"
        /\ Commit(PlayerHitF(Cur, i), "playerHit",
                  [NoArgs EXCEPT !.target = Body("p", projectiles[i].id),
                                 !.owner = "enemy",
                                 !.damage = projectiles[i].damage,
                                 !.preAlive = TRUE,
                                 !.preCount = playerHealth], clock)

\* the state after `new PlayerManager(scene, world, m1, m2, config)`, the
\* car model still loading; no manager of the game is in use
InitPL ==
    /\ coinCount = 0
    /\ hudOn = FALSE
    /\ maxEnemies = 0
    /\ spawnIntervalSec = 1
    /\ maxBullets = 1
    /\ StartWith(Fresh(maxBullets))
    /\ enableCube \in BOOLEAN
    /\ enableCar \in BOOLEAN
    /\ currentKey = InitialKey
    /\ gltfLoaded = FALSE
    /\ loadFailed = FALSE
    /\ cube = NewCube
    /\ tickLog = NoTick
    /\ NoInput
    /\ NoShell
    /\ ctl = NewCtl

\* PlayerManager.tick(delta, keys): move and syncToPhysics of the active
\* player; syncToPhysics throws on a car whose mesh is not loaded yet
PLTick ==
    \E space \in BOOLEAN, keyA \in BOOLEAN, keyD \in BOOLEAN,
       delta \in TickDeltaSet :
        LET active == IF currentKey \in Players THEN currentKey ELSE "none"
            targets == TickTargets(currentKey)
            c2 == IF "cube" \in targets
                  THEN TurnCube(MoveCube(cube, space), delta, keyA, keyD)
                  ELSE cube
            jumped == c2.vy # cube.vy
        IN  /\ Abs(c2.facingAngle) <= MaxTurn * ((TurnSpeedX10 * delta) \div 10)
            /\ cube' = c2
            /\ tickLog' =
                 [active |-> active, space |-> space,
                  prevSpace |-> tickLog.space,
                  cubeSpace |-> IF active = "cube" THEN space
                                ELSE tickLog.cubeSpace,
                  prevCubeSpace |-> tickLog.cubeSpace,
                  jumped |-> jumped, y |-> cube.y, vy |-> cube.vy,
                  jumpsThisPress |->
                      (IF space /\ tickLog.space THEN tickLog.jumpsThisPress
                       ELSE 0) + (IF jumped THEN 1 ELSE 0),
                  threw |-> "car" \in targets /\ ~gltfLoaded,
                  moved |-> targets,
                  failed |-> loadFailed]
            /\ UNCHANGED <<gameVars, inputVars, shellVars, enableCube, enableCar, loadFailed, currentKey,
                           gltfLoaded>>

\* cannon-es moves the cube body
PLPhysicsStep ==
    \E y \in CubeYSet, vy \in CubeVySet :
        /\ enableCube
        /\ <<y, vy>> # <<cube.y, cube.vy>>
        /\ cube' = [cube EXCEPT !.y = y, !.vy = vy]
        /\ UNCHANGED <<gameVars, inputVars, shellVars, enableCube, enableCar, loadFailed, currentKey,
                       gltfLoaded, tickLog>>

SwitchPlayer ==
    /\ currentKey' = SwitchPlayerF
    /\ UNCHANGED <<gameVars, inputVars, shellVars, enableCube, enableCar, loadFailed, gltfLoaded, cube, tickLog>>

SetActivePlayer ==
    \E key \in PlayerKeys :
        /\ currentKey' = SetActivePlayerF(key)
        /\ UNCHANGED <<gameVars, inputVars, shellVars, enableCube, enableCar, loadFailed, gltfLoaded, cube,
                       tickLog>>

\* the load-completion event: initCarModel resumes after loadAsync
CarLoaded ==
    /\ enableCar
    /\ ~gltfLoaded
    /\ ~loadFailed
    /\ gltfLoaded' = TRUE
    /\ UNCHANGED <<gameVars, inputVars, shellVars, enableCube, enableCar, loadFailed, currentKey, cube, tickLog>>

\* the load-failure event: loadAsync rejects, initCarModel never resumes
\* past its await and nothing catches the rejection
CarLoadFailed ==
    /\ enableCar
    /\ ~gltfLoaded
    /\ ~loadFailed
    /\ loadFailed' = TRUE
    /\ UNCHANGED <<gameVars, inputVars, shellVars, enableCube, enableCar, currentKey,
                   gltfLoaded, cube, tickLog>>

\* the state after `new InputManager()`, with no key or button held; no
\* other component is in use
InitIM ==
    /\ coinCount = 0
    /\ hudOn = FALSE
    /\ maxEnemies = 0
    /\ spawnIntervalSec = 1
    /\ maxBullets = 1
    /\ StartWith(Fresh(maxBullets))
    /\ NoPlayers
    /\ NoInput
    /\ NoShell
    /\ ctl = NewCtl

\* the state after `new App()` before its first animate, after `new
\* EnemyCube(...)` and after the construction of a RacingGamePage element;
\* no manager, player or input handler is in use
InitShell ==
    /\ coinCount = 0
    /\ hudOn = FALSE
    /\ maxEnemies = 0
    /\ spawnIntervalSec = 1
    /\ maxBullets = 1
    /\ StartWith(Fresh(maxBullets))
    /\ NoPlayers
    /\ NoInput
    /\ NoShell
    /\ ctl = NewCtl

\* App.animate(): the clock is read, never running backwards; the delta
\* goes to moveCube and to world.step
Animate ==
    \E time \in animLog.time..MaxAppTime :
        LET delta == AnimateDelta(lastCallTime, time)
        IN  /\ lastCallTime' = time
            /\ animLog' = [ticks |-> Min(animLog.ticks + 1, 2), time |-> time,
                           prev |-> animLog.time, moveDelta |-> delta,
                           stepDelta |-> delta]
            /\ UNCHANGED <<gameVars, playerVars, inputVars, ai, page, bus, ctl>>

\* a CarController in the middle of a drive: near and on the track bounds,
\* at rest, near and on both velocity limits, heading along z, along x and
\* in between; the car is where the last update put it
InitCar ==
    /\ coinCount = 0
    /\ hudOn = FALSE
    /\ maxEnemies = 0
    /\ spawnIntervalSec = 1
    /\ maxBullets = 1
    /\ StartWith(Fresh(maxBullets))
    /\ NoPlayers
    /\ NoInput
    /\ NoShell
    /\ \E x \in {0 - TrackX, 0, TrackX - 100},
          z \in {100 - TrackZ, 0, TrackZ},
          v \in {0 - (CarMaxSpeed \div 2), 0 - 7 * CarAccel, 0,
                 15 * CarAccel, CarMaxSpeed},
          r \in {0, 1795, -900} :
          ctl = [x |-> x, z |-> z, velocity |-> v, rotationY |-> r,
                 carX |-> x, carZ |-> z, carRotY |-> r, updates |-> 0]

\* one frame of the render loop after the cinematic:
\* carController.update(controls) with any combination of the four controls
CarUpdate ==
    /\ ctl.updates < MaxCarUpdates
    /\ \E controls \in [{"up", "down", "left", "right"} -> BOOLEAN] :
          ctl' = CarUpdateF(ctl, controls)
    /\ UNCHANGED <<gameVars, playerVars, inputVars, lastCallTime, animLog, ai,
                   page, bus>>

\* a CarController driven by arbitrary controls
SpecCar == InitCar /\ [][CarUpdate]_vars

\* the animation loop of App
SpecApp == InitShell /\ [][Animate]_vars

\* EnemyCube.updateAI(dt, playerPos)
UpdateAI ==
    \E dx \in AiOffsets, dz \in AiOffsets :
        /\ ai' = UpdateAIF(ai, dx, dz)
        /\ UNCHANGED <<gameVars, playerVars, inputVars, lastCallTime, animLog,
                       page, bus, ctl>>

\* cannon-es changes the vertical velocity of the enemy's body
AiPhysics ==
    \E vy \in AiVySet :
        /\ vy # ai.vy
        /\ ai' = [ai EXCEPT !.vy = vy]
        /\ UNCHANGED <<gameVars, playerVars, inputVars, lastCallTime, animLog,
                       page, bus, ctl>>

\* an EnemyCube under updateAI calls and the physics step
SpecAI == InitShell /\ [][UpdateAI \/ AiPhysics]_vars

\* connectedCallback(): initThreeScene returns early when the canvas is
\* there already; otherwise it creates renderer, scene, camera and car,
\* calls waitForCarLoad() and then render()
PageConnect ==
    /\ ~page.connected
    /\ page' =
         IF page.hasCanvas THEN [page EXCEPT !.connected = TRUE]
         ELSE RenderF(WaitForCarLoadF(
                  [page EXCEPT !.connected = TRUE, !.hasCanvas = TRUE,
                               !.renderer = TRUE, !.scene = TRUE,
                               !.camera = TRUE, !.car = TRUE,
                               !.carController = TRUE, !.isLoaded = FALSE,
                               !.tornDown = FALSE]))
    /\ ctl' = IF page.hasCanvas THEN ctl ELSE NewCtl
    /\ UNCHANGED <<gameVars, playerVars, inputVars, lastCallTime, animLog, ai,
                   bus>>

\* the browser runs the requested animation frame: render()
AnimationFrame ==
    /\ page.pending # 0
    /\ page.handles < MaxFrames
    /\ (page.carController /\ ~page.isCinematicActive)
           => ctl.updates < MaxCarUpdates
    /\ page' = RenderF([page EXCEPT !.pending = 0])
    /\ ctl' = IF page.carController /\ ~page.isCinematicActive
              THEN CarUpdateF(ctl, page.controls) ELSE ctl
    /\ UNCHANGED <<gameVars, playerVars, inputVars, lastCallTime, animLog, ai,
                   bus>>

\* the browser runs the timer set by waitForCarLoad: waitForCarLoad()
PollTimer ==
    /\ page.timer
    /\ page' = WaitForCarLoadF([page EXCEPT !.timer = FALSE,
                                            !.polls = 1 - @])
    /\ UNCHANGED <<gameVars, playerVars, inputVars, lastCallTime, animLog, ai,
                   bus, ctl>>

\* the GLTFLoader's load callback of the car: isLoaded = true
CarModelLoaded ==
    /\ page.hasCanvas
    /\ ~page.loadDone
    /\ page' = [page EXCEPT !.isLoaded = TRUE, !.loadDone = TRUE]
    /\ UNCHANGED <<gameVars, playerVars, inputVars, lastCallTime, animLog, ai,
                   bus, ctl>>

\* the GLTFLoader's error callback of the car, which does nothing
CarModelFailed ==
    /\ page.hasCanvas
    /\ ~page.loadDone
    /\ page' = [page EXCEPT !.loadDone = TRUE]
    /\ UNCHANGED <<gameVars, playerVars, inputVars, lastCallTime, animLog, ai,
                   bus, ctl>>

\* disconnectedCallback()
PageDisconnect ==
    /\ page.connected
    /\ page' = [page EXCEPT
                   !.pending = IF page.animationId # 0
                               THEN CancelAnimationFrame(@, page.animationId)
                               ELSE @,
                   !.renderer = FALSE, !.scene = FALSE, !.camera = FALSE,
                   !.car = FALSE, !.carController = FALSE,
                   !.connected = FALSE, !.tornDown = TRUE]
    /\ UNCHANGED <<gameVars, playerVars, inputVars, lastCallTime, animLog, ai,
                   bus, ctl>>

\* handleKeyDown / handleKeyUp: nothing during the cinematic, otherwise
\* the control of the key is set (down) or cleared (up)
HandleKeyAlways(p, c, down) ==
    [p EXCEPT !.controls[c] = down, !.keysIgnored = @ \/ p.isCinematicActive]

HandleKey(p, c, down) ==
    IF p.isCinematicActive THEN [p EXCEPT !.keysIgnored = TRUE]
    ELSE [p EXCEPT !.controls[c] = down]

\* a keydown of W/S/A/D or an arrow key reaches the window listener
PageKeyDown ==
    /\ page.connected
    /\ \E c \in DOMAIN page.controls : page' = HandleKey(page, c, TRUE)
    /\ UNCHANGED <<gameVars, playerVars, inputVars, lastCallTime, animLog, ai,
                   bus, ctl>>

\* a keyup of one of these keys reaches the window listener
PageKeyUp ==
    /\ page.connected
    /\ \E c \in DOMAIN page.controls : page' = HandleKey(page, c, FALSE)
    /\ UNCHANGED <<gameVars, playerVars, inputVars, lastCallTime, animLog, ai,
                   bus, ctl>>

\* the last tween of the cinematic completes: isCinematicActive = false
CinematicComplete ==
    /\ page.cinematic = "running"
    /\ page' = [page EXCEPT !.cinematic = "done",
                            !.isCinematicActive = FALSE]
    /\ UNCHANGED <<gameVars, playerVars, inputVars, lastCallTime, animLog, ai,
                   bus, ctl>>

NextPage ==
    \/ PageConnect
    \/ PageKeyDown
    \/ PageKeyUp
    \/ CinematicComplete
    \/ AnimationFrame
    \/ PollTimer
    \/ CarModelLoaded
    \/ CarModelFailed
    \/ PageDisconnect

\* the RacingGamePage element under the browser: connection, animation
\* frames, the polling timer, the car's model load and disconnection
SpecPage == InitShell /\ [][NextPage]_vars

\* the same, with the browser running every timer callback that was set:
\* a callback scheduled by setTimeout is not left waiting for ever
SpecPageFair == InitShell /\ [][NextPage]_vars /\ WF_vars(PollTimer)

\* on(event, listener): Set.add leaves a listener that is there in place
BusOn ==
    \E e \in BusEvents, l \in 1..MaxListeners :
        LET there == \E k \in 1..Len(bus.listeners[e]) : bus.listeners[e][k] = l
        IN  /\ bus' = [bus EXCEPT
                         !.listeners[e] = IF there THEN @ ELSE Append(@, l),
                         !.twice = IF there THEN @ \cup {<<e, l>>} ELSE @,
                         !.op = "on", !.event = e, !.listener = l,
                         !.invoked = <<>>]
            /\ UNCHANGED <<gameVars, playerVars, inputVars, lastCallTime,
                           animLog, ai, page, ctl>>

\* off(event, listener)
BusOff ==
    \E e \in BusEvents, l \in 1..MaxListeners :
        /\ bus' = [bus EXCEPT
                     !.listeners[e] = SelectSeq(@, LAMBDA x : x # l),
                     !.twice = @ \ {<<e, l>>},
                     !.op = "off", !.event = e, !.listener = l,
                     !.invoked = <<>>]
        /\ UNCHANGED <<gameVars, playerVars, inputVars, lastCallTime,
                       animLog, ai, page, ctl>>

\* clear(event), and clear() or clear('') which empty every event
BusClear ==
    \E e \in BusEvents \cup {""} :
        /\ bus' = [bus EXCEPT
                     !.listeners = [x \in BusEvents |->
                                      IF e = "" \/ x = e THEN <<>> ELSE @[x]],
                     !.twice = {t \in @ : e # "" /\ t[1] # e},
                     !.op = "clear", !.event = e, !.listener = 0,
                     !.invoked = <<>>]
        /\ UNCHANGED <<gameVars, playerVars, inputVars, lastCallTime,
                       animLog, ai, page, ctl>>

\* emit(event, payload)
BusEmit ==
    \E e \in BusEvents :
        /\ bus' = InvokeAll([bus EXCEPT !.op = "emit", !.event = e,
                                        !.listener = 0], e)
        /\ UNCHANGED <<gameVars, playerVars, inputVars, lastCallTime,
                       animLog, ai, page, ctl>>

\* an EventBus under on, off, clear and emit in any order
SpecBus == InitShell /\ [][BusOn \/ BusOff \/ BusClear \/ BusEmit]_vars

\* onKeyDown(e); the browser repeats keydown while a key stays held
KeyDown ==
    \E code \in InputCodes :
        /\ pressedKeys' = pressedKeys \cup {code}
        /\ actionPressed' = actionPressed \cup ActionsOf(code)
        /\ held' = held \cup {code}
        /\ UNCHANGED <<gameVars, playerVars, shellVars>>

\* onKeyUp(e), for a key that is held
KeyUp ==
    \E code \in InputCodes :
        /\ code \in held
        /\ pressedKeys' = pressedKeys \ {code}
        /\ actionPressed' = actionPressed \ ActionsOf(code)
        /\ held' = held \ {code}
        /\ UNCHANGED <<gameVars, playerVars, shellVars>>

\* onMouseDown(e), for a button that is not held
MouseDown ==
    \E b \in InputButtons :
        /\ ButtonName(b) \notin held
        /\ actionPressed' = IF b = 0 THEN actionPressed \cup ActionsOf("Mouse0")
                            ELSE actionPressed
        /\ held' = held \cup {ButtonName(b)}
        /\ UNCHANGED <<gameVars, playerVars, shellVars, pressedKeys>>

\* onMouseUp(e), for a button that is held
MouseUp ==
    \E b \in InputButtons :
        /\ ButtonName(b) \in held
        /\ actionPressed' = IF b = 0 THEN actionPressed \ ActionsOf("Mouse0")
                            ELSE actionPressed
        /\ held' = held \ {ButtonName(b)}
        /\ UNCHANGED <<gameVars, playerVars, shellVars, pressedKeys>>

\* the playerBodies arrays passed to CoinManager.update
PlayerLists == UNION {[1..n -> PlayerPosSet] : n \in 0..MaxPlayers}

CMUpdate ==
    \E players \in PlayerLists :
        Commit(CMUpdateF(Cur, players), "cm.update",
               [NoArgs EXCEPT !.players = players, !.preCount = coinsCollected],
               clock)

CMReset ==
    \E ps \in [1..coinCount -> CoinPosSet] :
        /\ coinsMade + coinCount <= MaxCoinIds
        /\ Commit(CMResetF(Cur, ps), "cm.reset",
                  [NoArgs EXCEPT !.preCount = coinsCollected], clock)

NextPM ==
    \/ PhysicsStep
    \/ SpawnBullet
    \/ PMUpdate
    \/ Despawn
    \/ PMReset

NextEM ==
    \/ AdvanceClock
    \/ Update
    \/ CheckHit
    \/ EMReset

NextEMApi ==
    \/ NextEM
    \/ SpawnEnemy
    \/ SpawnInitialWave

\* the state after `new HUDManager()` and `new ProjectileManager(cfg)`
InitBH ==
    /\ NoPlayers
    /\ NoInput
    /\ NoShell
    /\ ctl = NewCtl
    /\ coinCount = 0
    /\ hudOn = TRUE
    /\ maxEnemies = 0
    /\ spawnIntervalSec = 1
    /\ maxBullets \in 1..MaxBulletsCfg
    /\ StartWith(Fresh(maxBullets))

\* ProjectileManager shown on a HUD: player and enemy shots, despawns and
\* resets in any order
SpecBH == InitBH /\ [][NextPM]_vars

\* ProjectileManager driven by its callers and the physics step
SpecPM == InitPM /\ [][NextPM]_vars

\* EnemyManager driven through update, checkHit and reset, with the
\* ProjectileManager it shoots through
SpecEM == InitEM /\ [][NextEM]_vars

\* one enemy's updates frame by frame, with frame deltas smaller and
\* larger than its cooldown
SpecCD == InitCD /\ [][UpdateCD]_vars

\* EnemyManager with its public spawn methods called from outside as well
SpecEMApi == InitEM /\ [][NextEMApi]_vars

NextCM ==
    \/ CMUpdate
    \/ CMReset

\* CoinManager driven through update and reset, with a HUD listening
SpecCM == InitCM /\ [][NextCM]_vars

NextHUD ==
    \/ CheckHit
    \/ CMUpdate

\* one session of pickups and kills shown on a HUD: CoinManager.update
\* and EnemyManager.checkHit in any order, with no reset
SpecHUD == InitHUD /\ [][NextHUD]_vars

NextPH ==
    \/ EnemyShot
    \/ PlayerHit

\* enemy projectiles hitting the player, with a HUD listening
SpecPH == InitPH /\ [][NextPH]_vars

NextPL ==
    \/ PLTick
    \/ PLPhysicsStep
    \/ SwitchPlayer
    \/ SetActivePlayer
    \/ CarLoaded
    \/ CarLoadFailed

\* PlayerManager with its players: ticks, the physics step on the cube
\* body, player switches and the completion of the car's model load
SpecPL == InitPL /\ [][NextPL]_vars

NextIM ==
    \/ KeyDown
    \/ KeyUp
    \/ MouseDown
    \/ MouseUp

\* InputManager driven by the window's key and mouse events
SpecIM == InitIM /\ [][NextIM]_vars

\* the frame loop around a ProjectileManager: shots, the physics step and
\* update, with no reset
NextPMTick ==
    \/ SpawnBullet
    \/ PhysicsStep
    \/ PhysicsRest
    \/ PMUpdate

\* the frame loop keeps running: the world keeps being stepped and update
\* keeps being called
SpecPMFair ==
    /\ InitPM
    /\ [][NextPMTick]_vars
    /\ WF_vars(PhysicsStep \/ PhysicsRest)
    /\ WF_vars(PMUpdate)

(* =============================== claims ================================ *)
ScoreEvents(evs) ==
    Cardinality({k \in 1..Len(evs) : evs[k].name = "score.updated"})

BulletEvents(evs) ==
    Cardinality({k \in 1..Len(evs) : evs[k].name = "bullet.fired"})

\* the clock value the spawn timer counts from: the last timed spawn, or
\* the initial lastSpawn = 0
TimerBase == IF timedAt < 0 THEN 0 ELSE timedAt

\* C1: for every enemy tracked by EnemyManager, health <= 0 holds exactly
\* when alive is false, after any sequence of checkHit and update
AliveIffHealthPositive ==
    \A i \in 1..Len(enemies) :
        (enemies[i].health <= 0) <=> (enemies[i].alive = FALSE)

\* C1 witness: after a checkHit, one enemy died at exactly health 0 while
\* another one survives a hit with health 15
AliveIffHealthPositive_Witness ==
    /\ last.op = "checkHit"
    /\ \E i \in 1..Len(enemies) : ~enemies[i].alive /\ enemies[i].health = 0
    /\ \E i \in 1..Len(enemies) : enemies[i].alive /\ enemies[i].health = 15

PlayerBulletsBounded == ActiveBullets(Cur, "player") <= maxBullets

\* C3 witness: the largest configured cap was reached by an accepted shot
PlayerBulletsBounded_Witness ==
    /\ maxBullets = MaxBulletsCfg
    /\ ActiveBullets(Cur, "player") = maxBullets
    /\ last.op = "spawnBullet"
    /\ last.ret = "true"

\* C4 as stated: aliveCount() never exceeds maxEnemies, and a spawnEnemy
\* requested at the cap changes nothing
EnemyPopulationCapped ==
    /\ [](AliveCount(Cur) <= maxEnemies)
    /\ [][(last'.op = "spawnEnemy" /\ AliveCount(Cur) = maxEnemies)
           => (enemies' = enemies /\ world' = world /\ emitted' = <<>>)]_vars

\* C5: checkHit emits the kill score event exactly once per enemy, on the
\* hit that takes health from > 0 to <= 0; a sub-lethal hit emits none; a
\* checkHit on a dead (or no longer tracked) enemy changes no enemy and
\* emits nothing; no other operation emits a score event
KillScoreExactlyOnce ==
    [][/\ last'.op # "checkHit" => ScoreEvents(emitted') = 0
       /\ last'.op = "checkHit" =>
            LET live == {i \in IndexOfBody(Cur, last'.target) : enemies[i].alive}
            IN  IF live = {}
                THEN enemies' = enemies /\ emitted' = <<>>
                ELSE \A i \in live :
                       /\ enemies'[i].health = enemies[i].health - last'.damage
                       /\ enemies[i].health > 0
                       /\ ScoreEvents(emitted') =
                            (IF enemies'[i].health <= 0 THEN 1 ELSE 0)
                       /\ enemies'[i].kills =
                            (IF enemies'[i].alive THEN 0 ELSE 1)]_vars

\* C5 witness: the third hit of 25 on an enemy that died at health -10 with
\* one score event; the hit changed nothing and emitted nothing
KillScoreExactlyOnce_Witness ==
    /\ last.op = "checkHit"
    /\ last.damage = 25
    /\ ~last.preAlive
    /\ emitted = <<>>
    /\ \E i \in 1..Len(enemies) :
          /\ Body("e", enemies[i].id) = last.target
          /\ enemies[i].health = -10
          /\ ~enemies[i].alive
          /\ enemies[i].kills = 1

\* C6: when update returns, no enemy of the collection is dead: every enemy
\* that was dead when the pass began was destroyed (its body left the
\* world) and pruned in that pass
NoDeadAfterUpdate ==
    [][last'.op = "update" =>
        /\ \A i \in 1..Len(enemies') : enemies'[i].alive
        /\ \A i \in 1..Len(enemies) :
              ~enemies[i].alive =>
                 /\ enemies[i].id \in last'.destroyed
                 /\ Body("e", enemies[i].id) \notin world'
                 /\ \A k \in 1..Len(enemies') : enemies'[k].id # enemies[i].id]_vars

\* C6 witness: an update pass that destroyed a dead enemy
NoDeadAfterUpdate_Witness ==
    /\ last.op = "update"
    /\ last.destroyed # {}

\* C7 as stated: with the population full at time t0, update spawns no
\* enemy at any now < t0 + spawnIntervalSec
NoSpawnWithinIntervalOfFull ==
    [][(last'.op = "update" /\ last'.spawned > 0)
        => sinceFull >= spawnIntervalSec]_vars

\* C7 amended: update spawns no enemy at any now <= lastSpawn +
\* spawnIntervalSec, where lastSpawn is the time of the manager's last timed
\* spawn, or 0 when it has made none; so after a construction at clock 0 no
\* spawn happens while now <= spawnIntervalSec, even if the alive count
\* drops below the cap in that interval
NoSpawnWithinIntervalOfLastSpawn ==
    [][(last'.op = "update" /\ enemiesMade' > enemiesMade)
        => clock > TimerBase + spawnIntervalSec]_vars

\* C7 witness: in the first interval after construction the population
\* is below the cap and an update pass spawned nothing
NoSpawnWithinIntervalOfLastSpawn_Witness ==
    /\ last.op = "update"
    /\ last.spawned = 0
    /\ timedAt < 0
    /\ clock <= spawnIntervalSec
    /\ AliveCount(Cur) < maxEnemies

\* C8: update spawns at most one enemy per call; after a timed spawn at t
\* the next timed spawn needs now > t + spawnIntervalSec, however long the
\* timer had been due before t; and an update that finds the population
\* below the cap with the interval elapsed spawns exactly one
OneSpawnPerElapsedInterval ==
    [][last'.op = "update" =>
        /\ enemiesMade' - enemiesMade <= 1
        /\ (enemiesMade' > enemiesMade /\ timedAt >= 0)
              => clock > timedAt + spawnIntervalSec
        /\ (AliveCount(Cur) < maxEnemies
               /\ clock - TimerBase > spawnIntervalSec)
              => (enemiesMade' = enemiesMade + 1 /\ timedAt' = clock)]_vars

\* C8 witness: a timed spawn made when more than two intervals had elapsed
\* is followed by an update pass that finds the population below the cap
\* and spawns nothing
OneSpawnPerElapsedInterval_Witness ==
    /\ last.op = "update"
    /\ last.spawned = 0
    /\ timedAt > 2 * spawnIntervalSec
    /\ clock - timedAt <= spawnIntervalSec
    /\ AliveCount(Cur) < maxEnemies

\* what C9 compares: alive flags, per-owner live counts, bodies in the world
DespawnView(st) ==
    [alive |-> [i \in 1..Len(st.projectiles) |-> st.projectiles[i].alive],
     counts |-> [o \in Owners |-> ActiveBullets(st, o)],
     world |-> st.world]

\* C9: _despawn twice on the same projectile leaves the alive flags, the
\* per-owner live counts and the bodies in the world as _despawn once does
DespawnIdempotentOnState ==
    \A i \in 1..Len(projectiles) :
        DespawnView(DespawnF(DespawnF(Cur, i), i)) = DespawnView(DespawnF(Cur, i))

\* C9 witness: _despawn was called on a projectile that was already dead,
\* while another projectile of the same owner is alive
DespawnIdempotentOnState_Witness ==
    /\ last.op = "_despawn"
    /\ ~last.preAlive
    /\ ActiveBullets(Cur, last.owner) > 0

\* C10 as stated: _despawn on a dead projectile requests no removal of its
\* body and emits no bullet-count event
DespawnOfDeadIsSilent ==
    (last.op = "_despawn" /\ ~last.preAlive)
        => (last.removeReq = {} /\ emitted = <<>>)

\* C11: every EnemyCube ever constructed is either still in the manager's
\* list, with its body in the world and no destroy call made on it, or it
\* left the list with exactly one destroy call and its body out of the
\* world; and outside reset no destroy call is made on an alive enemy
EachEnemyDestroyedOnce ==
    /\ \A id \in 1..enemiesMade :
          IF \E i \in 1..Len(enemies) : enemies[i].id = id
          THEN /\ id \notin DOMAIN destroyCount
               /\ Body("e", id) \in world
          ELSE /\ id \in DOMAIN destroyCount
               /\ destroyCount[id] = 1
               /\ Body("e", id) \notin world
    /\ last.op # "em.reset" => last.destroyedAlive = {}

\* C11 witness: a reset destroyed a dead enemy that no update had pruned
\* and an alive one, after an update had destroyed a third
EachEnemyDestroyedOnce_Witness ==
    /\ last.op = "em.reset"
    /\ last.destroyedAlive # {}
    /\ last.destroyed \ last.destroyedAlive # {}
    /\ DOMAIN destroyCount \ last.destroyed # {}
\* the ids of the projectiles getActiveBullets(owner) returns from list ps
ActiveIds(ps, owner) ==
    LET res == GetActiveBullets([projectiles |-> ps], owner)
    IN  {res[k].id : k \in 1..Len(res)}

\* C12: a projectile that is alive with its body below y = -12 or farther
\* than 400 from the origin when ProjectileManager.update runs is dead, with
\* its body out of the world, when that call returns; and a projectile that
\* getActiveBullets('all') does not return is returned by no later
\* getActiveBullets call, whatever the owner filter
OutOfBoundsDespawnedForGood ==
    [][/\ last'.op = "pm.update" =>
            \A i \in 1..Len(projectiles) :
                (/\ projectiles[i].alive
                 /\ (projectiles[i].pos.y < -12 \/ projectiles[i].pos.r > 400))
                    => /\ i <= Len(projectiles')
                       /\ projectiles'[i].id = projectiles[i].id
                       /\ ~projectiles'[i].alive
                       /\ Body("p", projectiles[i].id) \notin world'
       /\ \A id \in 1..projMade :
            id \notin ActiveIds(projectiles, "all")
                => \A o \in Owners \cup {"all"} :
                       id \notin ActiveIds(projectiles', o)]_vars

\* C12 witness: one update call despawned a projectile below the floor and
\* a projectile beyond the range
OutOfBoundsDespawnedForGood_Witness ==
    /\ last.op = "pm.update"
    /\ \E i, j \in 1..Len(projectiles) :
          /\ projectiles[i].pos.y < FloorY
          /\ projectiles[i].pos.r <= MaxRange
          /\ projectiles[j].pos.r > MaxRange
          /\ projectiles[j].pos.y >= FloorY
          /\ {Body("p", projectiles[i].id), Body("p", projectiles[j].id)}
                 \subseteq last.removeReq
          /\ ActiveIds(projectiles, "all") = {}
\* the projectile with this id is in the list and alive
AliveId(id) ==
    \E i \in 1..Len(projectiles) : projectiles[i].id = id /\ projectiles[i].alive

\* C13 as stated: every projectile registered by spawnBullet is eventually
\* despawned when the physics step and update keep running, with no reset
EveryProjectileEventuallyDespawned ==
    \A id \in 1..MaxProjIds : (AliveId(id) ~> ~AliveId(id))
\* C14: when CoinManager.reset returns, whatever subset of the coins had
\* been collected, coinsCollected is 0, score is 0 and the list holds exactly
\* coinCount coins, none of them collected
ResetRestoresCoins ==
    last.op = "cm.reset" =>
        /\ coinsCollected = 0
        /\ score = 0
        /\ Len(coins) = coinCount
        /\ \A i \in 1..Len(coins) : ~coins[i].collected

\* C14 witness: reset was called with some, but not all, of two coins
\* collected
ResetRestoresCoins_Witness ==
    /\ last.op = "cm.reset"
    /\ coinCount = 2
    /\ last.preCount = 1

CoinEvents(evs) ==
    Cardinality({k \in 1..Len(evs) : evs[k].name = "coin.collected"})

\* the coins an update or reset step turns from uncollected to collected
NewlyCollected ==
    {i \in 1..Len(coins) :
        /\ ~coins[i].collected
        /\ i <= Len(coins')
        /\ coins'[i].id = coins[i].id
        /\ coins'[i].collected}

\* C15: an update call leaves every collected coin as it is, emits one
\* coin.collected event and adds 100 to score for each coin it collects,
\* and collects a coin once however many players are in range of it; and
\* outside reset a collected coin stays in the list, collected
CoinCollectedAtMostOnce ==
    [][/\ last'.op = "cm.update" =>
            /\ \A i \in 1..Len(coins) :
                    coins[i].collected => coins'[i] = coins[i]
            /\ Len(coins') = Len(coins)
            /\ CoinEvents(emitted') = Cardinality(NewlyCollected)
            /\ score' = score + 100 * Cardinality(NewlyCollected)
            /\ coinsCollected' = coinsCollected + Cardinality(NewlyCollected)
            /\ \A i \in NewlyCollected : coins'[i].pickups = 1
       /\ last'.op # "cm.reset" =>
            \A i \in 1..Len(coins) :
                coins[i].collected =>
                    /\ i <= Len(coins')
                    /\ coins'[i].id = coins[i].id
                    /\ coins'[i].collected]_vars

\* C15 witness: an update call with two players in range of a coin that
\* an earlier call had collected; it collected and emitted nothing
CoinCollectedAtMostOnce_Witness ==
    /\ last.op = "cm.update"
    /\ Len(last.players) = 2
    /\ emitted = <<>>
    /\ \E i \in 1..Len(coins) :
          /\ coins[i].collected
          /\ coins[i].pickups = 1
          /\ \A k \in 1..2 : Dist(coins[i].pos, last.players[k]) < 22
\* C16 as stated: the score the HUD shows is never negative and never goes
\* down, every coin pickup raises it by 100 and every enemy kill raises it
\* by 100, in any interleaving of pickups and kills
AggregateScoreMonotonic ==
    [][/\ hud.score >= 0
       /\ hud'.score >= hud.score
       /\ last'.op = "cm.update" =>
              hud'.score = hud.score + 100 * Cardinality(NewlyCollected)
       /\ (last'.op = "checkHit" /\ ScoreEvents(emitted') = 1) =>
              hud'.score = hud.score + 100]_vars
\* C17: a hit by an enemy projectile sets the player health to the old
\* health minus the projectile's damage, or to 0 when that is negative; the
\* result is within 0..100; the player.health.changed event of the hit
\* carries the new health and the HUD shows it
PlayerHealthClamped ==
    [][last'.op = "playerHit" =>
        /\ playerHealth' = (IF playerHealth - last'.damage < 0 THEN 0
                            ELSE playerHealth - last'.damage)
        /\ playerHealth' \in 0..100
        /\ emitted'[1] = [name |-> "player.health.changed", val |-> playerHealth']
        /\ hud'.health = playerHealth']_vars

\* C17 witness: from 100, two hits of 10 gave 80 and a hit of 90 gave 0
PlayerHealthClamped_Witness ==
    /\ last.op = "playerHit"
    /\ last.damage = 90
    /\ last.preCount = 80
    /\ playerHealth = 0
    /\ hud.health = 0
    /\ Len(projectiles) = 3
\* C18 as stated: a tick applies the jump velocity only if Space is
\* pressed on it, was not pressed on the previous tick and the body is
\* grounded; and no press yields more than one jump
JumpOnlyOnFreshPress ==
    /\ tickLog.jumped =>
          /\ tickLog.space
          /\ ~tickLog.prevSpace
          /\ tickLog.y <= 218
          /\ Abs(tickLog.vy) < 35
    /\ tickLog.jumpsThisPress <= 1

\* C18 amended: a tick applies the jump velocity only if the cube is the
\* active player, Space is pressed on it, Space was not pressed on the last
\* tick on which the cube was the active player (the previous tick, unless
\* another player was active then) and the body is grounded; and from one
\* release of Space to the next at most one jump is applied
JumpOnlyOnFreshPressOfCube ==
    /\ tickLog.jumped =>
          /\ tickLog.active = "cube"
          /\ tickLog.space
          /\ ~tickLog.prevCubeSpace
          /\ tickLog.y <= 218
          /\ Abs(tickLog.vy) < 35
    /\ tickLog.jumpsThisPress <= 1

\* C18 witness: Space still held on a tick of the grounded cube, after the
\* jump of this press: no second jump
JumpOnlyOnFreshPressOfCube_Witness ==
    /\ tickLog.active = "cube"
    /\ tickLog.space
    /\ tickLog.prevSpace
    /\ tickLog.y <= 218
    /\ Abs(tickLog.vy) < 35
    /\ tickLog.jumpsThisPress = 1
    /\ ~tickLog.jumped

\* C19 as stated: the active player is never a car whose model has not
\* finished loading
ActivePlayerLoaded == (currentKey = "car" /\ "car" \in Players) => gltfLoaded
\* C20 as stated: isActionActive(action) is true exactly when at least one
\* key or button bound to the action is held
ActiveIffSomeBindingHeld ==
    \A a \in DOMAIN ActionMap :
        IsActionActive(a) <=> (ActionMap[a] \cap held # {})

\* C21 as stated: once the load of the car's model has failed the car is
\* never loaded, and no PlayerManager.tick made after the failure throws
FailedLoadKeepsLoopRunning ==
    loadFailed => /\ ~gltfLoaded
                  /\ (tickLog.failed => ~tickLog.threw)

\* C23 as stated: the cube's facingAngle stays within one full turn of its
\* initial value 0 (2 pi is 6.28 radians)
FacingAngleWithinOneTurn == Abs(cube.facingAngle) < 628

\* C27: when a player is registered the current key names a registered
\* player; a tick calls move and syncToPhysics on that player only, and no
\* step taken while the cube is not the active player changes the cube's
\* facing angle, jump-edge flag or grounded flag, a tick then leaving the
\* whole cube, its body velocity included, as it was
TickTouchesActiveOnly ==
    [][/\ (Players # {} => currentKey' \in Players)
       /\ tickLog'.moved \subseteq {tickLog'.active}
       /\ Cardinality(tickLog'.moved) <= 1
       /\ currentKey # "cube" =>
            /\ cube'.facingAngle = cube.facingAngle
            /\ cube'.jumpKeyPressedLastFrame = cube.jumpKeyPressedLastFrame
            /\ cube'.grounded = cube.grounded
            /\ (tickLog' # tickLog => cube' = cube)]_vars

\* a tick with Space held went to the loaded car while the registered cube
\* stood grounded with its jump-edge flag clear
TickTouchesActiveOnly_Witness ==
    /\ Players = {"cube", "car"}
    /\ gltfLoaded
    /\ tickLog.active = "car"
    /\ tickLog.moved = {"car"}
    /\ tickLog.space
    /\ Grounded(cube)
    /\ ~cube.jumpKeyPressedLastFrame

\* C30: in every state of a CoinManager, score is 100 times coinsCollected,
\* coinsCollected is the number of coins whose collected flag is set, and
\* coinsCollected is at most coinCount
CoinCountersConsistent ==
    /\ score = 100 * coinsCollected
    /\ coinsCollected =
         Cardinality({i \in 1..Len(coins) : coins[i].collected})
    /\ coinsCollected <= coinCount

\* two coins have been collected, 200 points scored
CoinCountersConsistent_Witness ==
    /\ coinsCollected = 2
    /\ score = 200
    /\ \A i \in 1..Len(coins) : coins[i].collected

\* C29: an enemy marked dead takes no turn in any later update: the enemies
\* that update ran updateAI, syncToPhysics and the shooting test for are
\* exactly the ones it keeps, none of them one it prunes, and it spawns at
\* most one projectile for each of them
DeadEnemyTakesNoTurn ==
    last.op = "update" =>
        /\ last.aiTurns \cap last.destroyed = {}
        /\ last.aiTurns = {enemies[i].id : i \in 1..Len(enemies)}
        /\ BulletEvents(emitted) <= Len(enemies)

\* an update pruned a dead enemy while an alive one took its turn and shot
DeadEnemyTakesNoTurn_Witness ==
    /\ last.op = "update"
    /\ last.destroyed # {}
    /\ last.aiTurns # {}
    /\ BulletEvents(emitted) = Cardinality(last.aiTurns)

\* C25: an update spawns an enemy projectile for an enemy only when its
\* cooldown less dt is below zero and the player is within range, and at
\* most one; the cooldown is then in [1.7, 2.7), and more than 1.7 seconds
\* of dt have accumulated since the enemy's previous shot
EnemyShotsSpacedByCooldown ==
    LET cd == last.cd
    IN  (last.op = "update" /\ cd.shots > 0) =>
            /\ cd.shots = 1
            /\ cd.pre - cd.dt < 0
            /\ cd.inRange
            /\ Len(enemies) = 1
            /\ enemies[1].cooldown >= 170
            /\ enemies[1].cooldown < 270
            /\ (cd.hadShot => cd.gap > 170)

\* the enemy's second shot, after updates in which it did not shoot
EnemyShotsSpacedByCooldown_Witness ==
    /\ last.op = "update"
    /\ last.cd.shots = 1
    /\ last.cd.hadShot
    /\ last.cd.gap > 170
    /\ last.cd.dt = 60

\* C22: once disconnectedCallback has returned, no animation frame is
\* pending and render never runs again
TearDownStopsLoop ==
    page.tornDown => /\ page.pending = 0
                     /\ page.lateRenders = 0

\* the page was disconnected while its loop was running, a frame pending,
\* and has been connected again since
TearDownStopsLoop_Witness ==
    /\ page.tornDown
    /\ page.handles >= 3
    /\ page.animationId = page.handles
    /\ page.connected

\* C24 as stated: the delta passed to moveCube and to world.step is 0 on the
\* first animate and the clock reading minus that of the previous animate
\* on every later one
FrameDeltaIsElapsedTime ==
    animLog.ticks >= 1 =>
        LET elapsed == IF animLog.ticks = 1 THEN 0
                       ELSE animLog.time - animLog.prev
        IN  /\ animLog.moveDelta = elapsed
            /\ animLog.stepDelta = elapsed

\* C26: after updateAI the horizontal velocity has magnitude 8 and points
\* at the player exactly when the horizontal distance d to the player
\* satisfies 10 < d < 90, it is zero when d <= 10 or d >= 90, and the
\* vertical velocity is the one before the call
UpdateAIChasesWithinBand ==
    [][ai'.called /\ (ai'.dx # ai.dx \/ ai'.dz # ai.dz \/ ~ai.called) =>
         LET d2 == ai'.dx * ai'.dx + ai'.dz * ai'.dz
         IN  /\ (d2 > 10 * 10 /\ d2 < 90 * 90) =>
                    /\ ai'.num = <<8 * ai'.dx, 8 * ai'.dz>>
                    /\ ai'.den2 = d2
             /\ (d2 <= 10 * 10 \/ d2 >= 90 * 90) =>
                    /\ ai'.num = <<0, 0>>
             /\ ai'.vy = ai.vy]_vars

\* updateAI at distance exactly 10 left a falling enemy without horizontal
\* velocity
UpdateAIChasesWithinBand_Witness ==
    /\ ai.called
    /\ ai.dx = -6
    /\ ai.dz = 8
    /\ ai.num = <<0, 0>>
    /\ ai.vy = -200
    /\ ai.preVy = -200

\* C28: launchCinematic is invoked at most once, and never while the car's
\* isLoaded is false
CinematicOnceAfterLoad ==
    /\ page.launches <= 1
    /\ ~page.launchedUnloaded
    /\ (page.launches = 1 => page.isLoaded)

\* the cinematic was launched by a timer poll after the model had loaded
CinematicOnceAfterLoad_Witness ==
    /\ page.launches = 1
    /\ page.isLoaded
    /\ ~page.timer
    /\ page.connected

\* C31 as stated: after ProjectileManager.update returns, the projectile
\* list holds only live projectiles
UpdateKeepsOnlyLiveProjectiles ==
    last.op = "pm.update" =>
        \A i \in 1..Len(projectiles) : projectiles[i].alive

\* C32 as stated: the bullet count of the HUD is the number of live
\* player-owned projectiles and is at most maxBullets
HudShowsLivePlayerBullets ==
    /\ hud.bullets =
         Cardinality({i \in 1..Len(projectiles) :
                        projectiles[i].owner = "player" /\ projectiles[i].alive})
    /\ hud.bullets <= maxBullets

\* the number of times listener l occurs in the sequence of calls
TimesInvoked(calls, l) == Cardinality({k \in 1..Len(calls) : calls[k] = l})

\* C33: emit(event, payload) calls each listener registered for the event
\* exactly once, also one that was registered twice, and calls no listener
\* that is registered for another event only, was removed by off or clear,
\* or is registered later: on, off and clear call no listener
EmitInvokesRegisteredOnce ==
    /\ bus.op = "emit" =>
         \A l \in 1..MaxListeners :
            TimesInvoked(bus.invoked, l) =
                IF \E k \in 1..Len(bus.listeners[bus.event]) :
                      bus.listeners[bus.event][k] = l
                THEN 1 ELSE 0
    /\ bus.op # "emit" => bus.invoked = <<>>

\* an emit reached a listener that had been registered twice and left out
\* the listener of the other event
EmitInvokesRegisteredOnce_Witness ==
    /\ bus.op = "emit"
    /\ bus.event = "bullet.fired"
    /\ bus.listeners["bullet.fired"] = <<1>>
    /\ <<"bullet.fired", 1>> \in bus.twice
    /\ bus.listeners["bullet.max"] = <<2>>
    /\ bus.invoked = <<1>>

\* C34: while isCinematicActive is true the key events have left every
\* control false and render has never called CarController.update: the
\* controller's position, yaw and velocity, and the car's, are the initial
\* ones
CinematicFreezesCar ==
    page.isCinematicActive =>
        /\ \A c \in DOMAIN page.controls : ~page.controls[c]
        /\ ctl.updates = 0
        /\ ctl.x = 0 /\ ctl.z = 0 /\ ctl.rotationY = 0 /\ ctl.velocity = 0
        /\ ctl.carX = 0 /\ ctl.carZ = 0 /\ ctl.carRotY = 0

\* key events arrived and frames were rendered with the controller in
\* place while the cinematic was running
CinematicFreezesCar_Witness ==
    /\ page.isCinematicActive
    /\ page.cinematic = "running"
    /\ page.keysIgnored
    /\ page.carController
    /\ page.handles >= 3

\* C35: the car-load polling terminates: once the model load has completed
\* or the page has been torn down, a state follows in which waitForCarLoad
\* has no timer pending
CarLoadPollingTerminates ==
    (page.isLoaded \/ page.tornDown) ~> ~page.timer

\* C36: after every CarController.update the velocity lies in
\* [-maxSpeed/2, maxSpeed], the position lies within the track bounds
\* (|x| <= 5.5, |z| <= 16.5), and the car's position and yaw are the
\* controller's
CarStaysOnTrack ==
    ctl.updates > 0 =>
        /\ 2 * ctl.velocity >= 0 - CarMaxSpeed
        /\ ctl.velocity <= CarMaxSpeed
        /\ ctl.x >= 0 - TrackX /\ ctl.x <= TrackX
        /\ ctl.z >= 0 - TrackZ /\ ctl.z <= TrackZ
        /\ ctl.carX = ctl.x /\ ctl.carZ = ctl.z
        /\ ctl.carRotY = ctl.rotationY

\* two updates under acceleration along x brought the car from inside the
\* track onto the bound, at the top speed
CarStaysOnTrack_Witness ==
    /\ ctl.updates = 2
    /\ ctl.x = TrackX
    /\ ctl.velocity = CarMaxSpeed
    /\ ctl.carX = TrackX

====
